---- MODULE Spec2Model ----
(***************************************************************************)
(* A model of router-brute's coordination layer:                           *)
(*   - core.PasswordQueue            (cursor over the wordlist)            *)
(*   - core.Engine                   (W workers against one module)        *)
(*   - core.MultiTargetEngine        (per-target tasks, semaphore)         *)
(*   - core.ProgressTracker          (update channel, processor, Stop)     *)
(*   - the three protocol modules' Authenticate/Connect/Close bookkeeping  *)
(*                                                                         *)
(* A password is modelled by its 1-based position in the wordlist, so the  *)
(* wordlist of length N is <<1, ..., N>> and NoPassword (0) is Go's "".    *)
(***************************************************************************)
EXTENDS Integers, Sequences, FiniteSets, TLC

(***************************************************************************)
(* Bounds of the model.                                                    *)
(***************************************************************************)
MaxPasswords == 2      \* longest wordlist of the queue and engine layers
MaxUngets == 2         \* Unget calls explored in the queue layer
MaxFaults == 2         \* transient faults the environment may inject per run
MteMaxConsecErrors == 2 \* configured --max-conseq-err-per-host
UpdateChanCap == 2     \* capacity of the tracker's update channel (1000 in the program)
ProgressEvery == 1     \* results between periodic tracker updates (10 in the program)
MaxUpdates == 3        \* UpdateTargetProgress calls explored in the tracker layer
DriverPasswords == 6   \* wordlist length of the driver layer (> MaxAttemptsPerConn)
DriverFaults == 1      \* transient faults explored in the driver layer
InitialTimeoutMs == 1000 \* configured initial timeout of a target
MaxTimeoutMs == 2000   \* configured maximum of the adaptive timeout
MaxTimeouts == 2       \* i/o timeouts the environment may inject in the single-target run

(***************************************************************************)
(* Program constants.                                                      *)
(***************************************************************************)
DefaultMaxConsecErrors == 5
MaxAttemptsPerConn == 4
TimeoutStepMs == 500

NoPassword == 0

Min(a, b) == IF a < b THEN a ELSE b

VARIABLES
  \* ---- configuration of the run (chosen in Init, never changed) ----
  nT,          \* number of targets loaded
  nW,          \* workersPerTarget
  nC,          \* concurrentTargets
  passwords,   \* MultiTargetEngine.passwords
  accepts,     \* accepts[t]: the password the device of target t accepts (0: none)
  initFails,   \* initFails[t]: module.Initialize returns an error
  reachable,   \* reachable[t]: the pre-flight connect succeeds
  trackerOn,   \* mte.progressTracker != nil
  mteMaxConsec, \* mte.maxConsecErrors, 0 when not configured
  addr,        \* addr[t]: the (ip, port) of the t-th line of the target file
  ownCtx,      \* e.ctx is the context NewEngine created (Start), not one passed in
  \* ---- parent context ----
  cancelled,
  \* ---- PasswordQueue, per target ----
  pq,          \* [passwords, index]
  \* ---- Engine, per target ----
  consec,      \* consecutiveErrors
  maxConsec,   \* maxConsecErrors
  eres,        \* results channel
  eerr,        \* errors channel
  eclosed,     \* closed
  started,     \* StartWithContext spawned the workers and the janitor
  wpc,         \* wpc[t][w]: position of worker w
  wpw,         \* wpw[t][w]: the password the worker holds
  wout,        \* wout[t][w]: outcome of its Authenticate call
  faultsLeft,  \* environment: transient faults still to inject
  timeoutsLeft, \* environment: i/o timeouts still to inject
  curTimeout,  \* currentTimeout, in milliseconds
  maxTimeout,  \* maxTimeout, in milliseconds
  wnew,        \* wnew[t][w]: newTimeout of a worker inside increaseTimeout
  \* ---- single-target run (runAttack) ----
  rpc,         \* position of the results loop: "none" | "loop" | "cancel" | "wait" | "done"
  rtotal,      \* totalAttempts
  \* ---- MultiTargetEngine ----
  tpc,         \* tpc[t]: position of processTarget(t)
  sem,         \* slots of the semaphore in use
  startIdx,    \* startPasswordIndex
  collected,   \* len(results) of the results collector
  csuccess,    \* success
  cpassword,   \* successPassword
  rcDone,      \* resultsDone closed
  ecDone,      \* errorsDone closed
  resultsChan, \* outer results channel
  errorsChan,  \* outer errors channel
  outerClosed, \* the outer channels are closed
  gotResults,  \* MultiTargetResults the consumer received
  gotErrors,   \* MultiTargetErrors the consumer received
  \* ---- ProgressTracker ----
  updateChan,  \* buffered update channel
  chanClosed,  \* Stop closed updateChan
  rs,          \* resumeState.Targets: rs[t] is target t's TargetProgress
  procPc,      \* updateProcessor: "run" | "done"
  asPc,        \* autoSaveLoop: "none" | "run" | "done"
  stopPc,      \* Stop: "idle" | "wait" | "done"
  saved,       \* the most recently written checkpoint (<<>>: none)
  dirty,       \* changesDetected
  rdHandle,    \* what GetState or GetTargetProgress last returned to a caller
  rdSnap,      \* history: what that value showed when it was returned
  \* ---- one call of a function of the binary driver ----
  callArg,     \* the argument of the call
  callRet,     \* what the call returned (NoReturn before it returns)
  \* ---- history (not program state) ----
  delivered,   \* delivered[t]: passwords handed out by Next, in lock order
  ungets,      \* Unget calls so far
  published,   \* published[t][p]: Results for password p put on the engine's result channel
  exitPath,    \* exitPath[t]: how processTarget(t) returned
  faulted,     \* faulted[t]: an Authenticate call ended in a transient fault
  connFailed,  \* connFailed[t]: a worker's start-up Connect failed
  hitMax,      \* hitMax[t]: consecutiveErrors reached maxConsecErrors
  authed,      \* authed[t]: an Authenticate call was made against target t
  closes,      \* closes[t]: executions of close(e.results); close(e.errors)
  ioTimeouts,  \* ioTimeouts[t]: Authenticate calls that ended in an i/o timeout
  protoErr,    \* protoErr[t]: an Authenticate call ended in an error that is no connection error
  faultRun,    \* faultRun[t]: Authenticate calls that ended in a connection error since the
               \* last call on t that ended otherwise
  accepted,    \* updates enqueued on updateChan, in order
  sendLog,     \* per UpdateTargetProgress call: channel length before it, and whether it enqueued
  \* ---- protocol module (driver layer) ----
  drv,         \* "v6" | "v7" | "rest"
  mu,          \* holder of the module mutex (0: free)
  connected,   \* BaseRouterModule.connected
  conn,        \* m.conn: id of the current socket (0: nil)
  attemptsOnConn,
  sentOn,      \* history: sentOn[c] is the number of login sentences written on socket c
  dpc,         \* dpc[w]: position of driver-layer worker w
  dconn,       \* dconn[w]: socket the worker dialed / writes on
  dpw,         \* dpw[w]: password the worker holds
  dfaults      \* environment: transient faults still to inject

cfgVars == <<nT, nW, nC, passwords, accepts, initFails, reachable, trackerOn, mteMaxConsec, addr, ownCtx>>
queueVars == <<pq, delivered, ungets>>
authVars == <<authed, timeoutsLeft, ioTimeouts, protoErr, faultRun>>
timeoutVars == <<curTimeout, maxTimeout, wnew>>
engineVars == <<consec, maxConsec, eres, eerr, eclosed, closes, started, wpc, wpw, wout,
                faultsLeft, published, faulted, connFailed, hitMax, authVars, timeoutVars>>
runVars == <<rpc, rtotal>>
readVars == <<rdHandle, rdSnap>>
callVars == <<callArg, callRet>>
multiVars == <<tpc, sem, startIdx, collected, csuccess, cpassword, rcDone, ecDone,
               resultsChan, errorsChan, outerClosed, gotResults, gotErrors, exitPath>>
trackerVars == <<updateChan, chanClosed, rs, procPc, stopPc, saved, dirty,
                 accepted, sendLog, asPc>>
driverVars == <<drv, mu, connected, conn, attemptsOnConn, sentOn,
                dpc, dconn, dpw, dfaults>>
vars == <<cfgVars, cancelled, queueVars, engineVars, multiVars, trackerVars, driverVars, runVars, readVars, callVars>>

Wordlist(n) == [i \in 1..n |-> i]

(***************************************************************************)
(* core.PasswordQueue                                                      *)
(***************************************************************************)
NewPasswordQueue(pws) == [passwords |-> pws, index |-> 0]

\* Next, without advancing the cursor
PasswordQueue_Next_NoAdvance(q) ==
  IF q.index >= Len(q.passwords)
  THEN [q |-> q, password |-> NoPassword]
  ELSE [q |-> q, password |-> q.passwords[q.index + 1]]

\* Next: the queue after the call and the password returned
PasswordQueue_Next(q) ==
  IF q.index >= Len(q.passwords)
  THEN [q |-> q, password |-> NoPassword]
  ELSE [q |-> [q EXCEPT !.index = @ + 1], password |-> q.passwords[q.index + 1]]

\* Unget rewinding to the start of the list
PasswordQueue_Unget_ToStart(q) == [q EXCEPT !.index = 0]

\* Unget: rewind the cursor by one, saturating at zero
PasswordQueue_Unget(q) ==
  IF q.index > 0 THEN [q EXCEPT !.index = @ - 1] ELSE q


(***************************************************************************)
(* Values every layer starts from when it is not the one being run.        *)
(***************************************************************************)
TargetIds == 1..2
WorkerIds == 1..2

NoProgress == [tried |-> 0, completed |-> FALSE, success |-> FALSE, found |-> NoPassword,
               dead |-> FALSE, consec |-> 0]

QueueIdle ==
  /\ pq = [t \in TargetIds |-> NewPasswordQueue(<<>>)]
  /\ delivered = [t \in TargetIds |-> <<>>]
  /\ ungets = 0

EngineIdle ==
  /\ consec = [t \in TargetIds |-> 0]
  /\ maxConsec = [t \in TargetIds |-> DefaultMaxConsecErrors]
  /\ eres = [t \in TargetIds |-> <<>>]
  /\ eerr = [t \in TargetIds |-> <<>>]
  /\ eclosed = [t \in TargetIds |-> FALSE]
  /\ started = [t \in TargetIds |-> FALSE]
  /\ wpc = [t \in TargetIds |-> [w \in WorkerIds |-> "none"]]
  /\ wpw = [t \in TargetIds |-> [w \in WorkerIds |-> NoPassword]]
  /\ wout = [t \in TargetIds |-> [w \in WorkerIds |-> "none"]]
  /\ faultsLeft = 0
  /\ published = [t \in TargetIds |-> [p \in 1..MaxPasswords |-> 0]]
  /\ faulted = [t \in TargetIds |-> FALSE]
  /\ connFailed = [t \in TargetIds |-> FALSE]
  /\ hitMax = [t \in TargetIds |-> FALSE]
  /\ authed = [t \in TargetIds |-> FALSE]
  /\ closes = [t \in TargetIds |-> 0]
  /\ ioTimeouts = [t \in TargetIds |-> 0]
  /\ protoErr = [t \in TargetIds |-> FALSE]
  /\ faultRun = [t \in TargetIds |-> 0]
  /\ timeoutsLeft = 0
  /\ curTimeout = [t \in TargetIds |-> InitialTimeoutMs]
  /\ maxTimeout = [t \in TargetIds |-> MaxTimeoutMs]
  /\ wnew = [t \in TargetIds |-> [w \in WorkerIds |-> 0]]

RunIdle ==
  /\ rpc = "none"
  /\ rtotal = 0

\* no value of the tracker's state has been handed out
NoHandle == [kind |-> "none", target |-> 0, val |-> <<>>]

ReadIdle ==
  /\ rdHandle = NoHandle
  /\ rdSnap = <<>>

NoReturn == [returned |-> FALSE]

CallIdle ==
  /\ callArg = <<>>
  /\ callRet = NoReturn

MultiIdle ==
  /\ tpc = [t \in TargetIds |-> "none"]
  /\ sem = 0
  /\ startIdx = [t \in TargetIds |-> 0]
  /\ collected = [t \in TargetIds |-> 0]
  /\ csuccess = [t \in TargetIds |-> FALSE]
  /\ cpassword = [t \in TargetIds |-> NoPassword]
  /\ rcDone = [t \in TargetIds |-> FALSE]
  /\ ecDone = [t \in TargetIds |-> FALSE]
  /\ resultsChan = <<>>
  /\ errorsChan = <<>>
  /\ outerClosed = FALSE
  /\ gotResults = <<>>
  /\ gotErrors = <<>>
  /\ exitPath = [t \in TargetIds |-> "none"]

TrackerIdle ==
  /\ updateChan = <<>>
  /\ chanClosed = FALSE
  /\ rs = [t \in TargetIds |-> NoProgress]
  /\ procPc = "run"
  /\ stopPc = "idle"
  /\ saved = <<>>
  /\ dirty = FALSE
  /\ accepted = <<>>
  /\ sendLog = <<>>
  /\ asPc = "none"

DriverIdle ==
  /\ drv = "v6"
  /\ mu = 0
  /\ connected = FALSE
  /\ conn = 0
  /\ attemptsOnConn = 0
  /\ sentOn = <<>>
  /\ dpc = [w \in WorkerIds |-> "none"]
  /\ dconn = [w \in WorkerIds |-> 0]
  /\ dpw = [w \in WorkerIds |-> NoPassword]
  /\ dfaults = 0

CfgIdle ==
  /\ nT = 1
  /\ nW = 2
  /\ nC = 1
  /\ accepts = [t \in TargetIds |-> NoPassword]
  /\ initFails = [t \in TargetIds |-> FALSE]
  /\ reachable = [t \in TargetIds |-> TRUE]
  /\ trackerOn = FALSE
  /\ mteMaxConsec = MteMaxConsecErrors
  /\ addr = [t \in TargetIds |-> t]
  /\ ownCtx = FALSE

(***************************************************************************)
(* Queue layer: concurrent callers of one PasswordQueue.  Each call holds  *)
(* pq.mu for its whole body, so a call is one step.                        *)
(***************************************************************************)
InitQueue ==
  /\ CfgIdle /\ EngineIdle /\ MultiIdle /\ TrackerIdle /\ DriverIdle /\ RunIdle
  /\ cancelled = FALSE
  /\ ReadIdle /\ CallIdle
  /\ passwords \in {Wordlist(n) : n \in 0..MaxPasswords}
  /\ pq = [t \in TargetIds |-> NewPasswordQueue(passwords)]
  /\ delivered = [t \in TargetIds |-> <<>>]
  /\ ungets = 0

Q_Next(w) ==
  LET r == PasswordQueue_Next(pq[1]) IN
  /\ pq' = [pq EXCEPT ![1] = r.q]
  /\ wpw' = [wpw EXCEPT ![1][w] = r.password]
  /\ delivered' = IF r.password # NoPassword
                  THEN [delivered EXCEPT ![1] = Append(@, r.password)]
                  ELSE delivered
  /\ UNCHANGED <<cfgVars, cancelled, ungets, consec, maxConsec, eres, eerr, eclosed, closes,
                 started, wpc, wout, faultsLeft, published, faulted, connFailed, hitMax,
                 authVars, timeoutVars, multiVars, trackerVars, driverVars, runVars, readVars, callVars>>

Q_Unget(w) ==
  /\ ungets < MaxUngets
  /\ pq' = [pq EXCEPT ![1] = PasswordQueue_Unget(@)]
  /\ ungets' = ungets + 1
  /\ UNCHANGED <<cfgVars, cancelled, delivered, engineVars, multiVars, trackerVars,
                 driverVars, runVars, readVars, callVars>>

NextQueue == \E w \in WorkerIds : Q_Next(w) \/ Q_Unget(w)

SpecQueue == InitQueue /\ [][NextQueue]_vars

\* C5: with concurrent callers and no Unget, Next hands out the wordlist's
\* positions 1, 2, ..., index exactly once each and in increasing order, and
\* hands out nothing more once the cursor is at the end of the list.
C5_NextExactlyOnceInOrder ==
  ungets = 0 =>
    /\ pq[1].index <= Len(pq[1].passwords)
    /\ delivered[1] = SubSeq(pq[1].passwords, 1, pq[1].index)
    /\ \A w \in WorkerIds : wpw[1][w] # NoPassword =>
         \E i \in 1..Len(delivered[1]) : delivered[1][i] = wpw[1][w]

\* Both callers were served, the list is exhausted, and a caller that asked
\* again at the end got nothing.
C5_Witness ==
  /\ ungets = 0
  /\ Len(pq[1].passwords) = MaxPasswords
  /\ pq[1].index = MaxPasswords
  /\ wpw[1][1] = NoPassword
  /\ wpw[1][2] = MaxPasswords
  /\ Len(delivered[1]) = MaxPasswords


(***************************************************************************)
(* core.ProgressTracker.UpdateTargetProgress: a select with a default      *)
(* branch, so the update is enqueued when the channel has room and dropped *)
(* otherwise.                                                              *)
(***************************************************************************)
\* a blocking send: the caller would wait for room
Tracker_CanSend_Blocking(ch) == Len(ch) < UpdateChanCap

\* whether the call can complete at once: always, the select has a default
Tracker_CanSend(ch) == TRUE

\* a channel that hands out the newest update first
Tracker_Enqueue_Front(ch, u) == IF Len(ch) < UpdateChanCap THEN <<u>> \o ch ELSE ch

\* case pt.updateChan <- update: when there is room; default: otherwise
Tracker_Enqueue(ch, u) == IF Len(ch) < UpdateChanCap THEN Append(ch, u) ELSE ch

Update(t, tried, completed, success, found, dead, cerrs) ==
  [target |-> t, tried |-> tried, completed |-> completed, success |-> success,
   found |-> found, dead |-> dead, consec |-> cerrs]

\* ResumeState.UpdateTargetProgress: the fields of the six-argument form
ResumeState_UpdateTargetProgress(rec, u) ==
  [rec EXCEPT !.tried = u.tried,
              !.completed = u.completed,
              !.success = u.success,
              !.found = IF u.success THEN u.found ELSE @]

\* the dead flag and the consecutive-error count of the nine-argument form
ResumeState_UpdateHealth(rec, u) ==
  [rec EXCEPT !.dead = u.dead, !.consec = u.consec]

\* the loop of UpdateTargetProgress and GetTargetProgress over rs.Targets:
\* the first entry with the ip and port of target t.  runMultiTarget makes
\* entry i from the i-th target of the file.
ResumeState_IndexOf(t) ==
  CHOOSE i \in TargetIds : addr[i] = addr[t] /\ \A j \in 1..(i - 1) : addr[j] # addr[t]

ApplyUpdate(state, u) ==
  [state EXCEPT ![ResumeState_IndexOf(u.target)] =
     ResumeState_UpdateHealth(ResumeState_UpdateTargetProgress(@, u), u)]

(***************************************************************************)
(* core.Engine: the worker loop.  Authenticate is one step here: the       *)
(* driver layer below models what happens inside it.                       *)
(***************************************************************************)
Result(p, o) == [password |-> p, success |-> (o = "ok"), error |-> (o = "proto")]

\* isConnectionError taking every error for a connection error
IsConnectionError_AnyError(o) == o \in {"fault", "timeout", "proto"}

\* isConnectionError: broken pipe, connection reset, EOF, connection refused
\* ("fault") and i/o timeout ("timeout")
IsConnectionError(o) == o \in {"fault", "timeout"}

\* isTimeoutError
IsTimeoutError(o) == o = "timeout"

\* what the device and the network can answer to password p on target t
Outcomes(t, p) ==
  {IF p = accepts[t] THEN "ok" ELSE "reject"}
    \cup (IF faultsLeft > 0 THEN {"fault", "proto"} ELSE {})
    \cup (IF timeoutsLeft > 0 THEN {"timeout"} ELSE {})

Workers == 1..nW
Targets == 1..nT

AllWorkersExited(t) == \A w \in Workers : wpc[t][w] \in {"none", "exit"}

workerBase == <<cfgVars, cancelled, multiVars, trackerVars, driverVars, runVars, readVars, callVars, maxConsec,
                eclosed, closes, started, ungets>>

workerFrame == <<workerBase, timeoutVars>>

workerRest == <<workerFrame, connFailed>>

\* worker start-up: if !IsConnected { Connect }
W_Connect(t, w) ==
  /\ wpc[t][w] = "start"
  /\ \/ /\ wpc' = [wpc EXCEPT ![t][w] = "check"]
        /\ UNCHANGED <<faultsLeft, connFailed>>
     \/ /\ faultsLeft > 0
        /\ faultsLeft' = faultsLeft - 1
        /\ connFailed' = [connFailed EXCEPT ![t] = TRUE]
        /\ wpc' = [wpc EXCEPT ![t][w] = "connErr"]
  /\ UNCHANGED <<workerFrame, authVars, faulted, pq, delivered, consec, eres, eerr, wpw, wout, published,
                 hitMax>>

\* select { case e.errors <- err: case <-e.ctx.Done(): }; return
W_ConnErr(t, w) ==
  /\ wpc[t][w] = "connErr"
  /\ \/ /\ Len(eerr[t]) < nW
        /\ eerr' = [eerr EXCEPT ![t] = Append(@, "err")]
     \/ /\ cancelled
        /\ UNCHANGED eerr
  /\ wpc' = [wpc EXCEPT ![t][w] = "exit"]
  /\ UNCHANGED <<workerRest, authVars, pq, delivered, consec, eres, wpw, wout, faultsLeft,
                 published, faulted, connFailed, hitMax>>

\* consecutiveErrors >= maxConsecErrors ends the worker
DeadThreshold(t) == maxConsec[t]

\* top of the loop: cancellation, then the dead-host check
W_Check(t, w) ==
  /\ wpc[t][w] = "check"
  /\ wpc' = [wpc EXCEPT ![t][w] =
       IF cancelled \/ consec[t] >= DeadThreshold(t) THEN "exit" ELSE "next"]
  /\ UNCHANGED <<workerRest, authVars, pq, delivered, consec, eres, eerr, wpw, wout, faultsLeft,
                 published, faulted, connFailed, hitMax>>

\* password := e.passwordQueue.Next(); if password == "" { return }
W_Next(t, w) ==
  /\ wpc[t][w] = "next"
  /\ LET r == PasswordQueue_Next(pq[t]) IN
       /\ pq' = [pq EXCEPT ![t] = r.q]
       /\ wpw' = [wpw EXCEPT ![t][w] = r.password]
       /\ IF r.password = NoPassword
          THEN wpc' = [wpc EXCEPT ![t][w] = "exit"]
          ELSE wpc' = [wpc EXCEPT ![t][w] = "auth"]
  /\ UNCHANGED <<workerRest, authVars, delivered, consec, eres, eerr, wout, faultsLeft, published, faulted,
                 hitMax>>

\* success, err = e.module.Authenticate(e.ctx, password), up to the first
\* statement after it that touches shared state: on a connection error
\* e.passwordQueue.Unget(), on any other outcome e.consecutiveErrors = 0
W_Auth(t, w) ==
  /\ wpc[t][w] = "auth"
  /\ \E o \in Outcomes(t, wpw[t][w]) :
       /\ wout' = [wout EXCEPT ![t][w] = o]
       /\ faultsLeft' = IF o \in {"fault", "proto"} THEN faultsLeft - 1 ELSE faultsLeft
       /\ timeoutsLeft' = IF o = "timeout" THEN timeoutsLeft - 1 ELSE timeoutsLeft
       /\ ioTimeouts' = IF o = "timeout" THEN [ioTimeouts EXCEPT ![t] = @ + 1] ELSE ioTimeouts
       /\ protoErr' = IF o = "proto" THEN [protoErr EXCEPT ![t] = TRUE] ELSE protoErr
       /\ faultRun' = [faultRun EXCEPT ![t] = IF IsConnectionError(o) THEN @ + 1 ELSE 0]
       /\ faulted' = IF IsConnectionError(o) THEN [faulted EXCEPT ![t] = TRUE] ELSE faulted
       /\ IF IsConnectionError(o)
          THEN /\ pq' = [pq EXCEPT ![t] = PasswordQueue_Unget(@)]
               /\ wpc' = [wpc EXCEPT ![t][w] = "inc"]
               /\ UNCHANGED consec
          ELSE /\ consec' = [consec EXCEPT ![t] = 0]
               /\ wpc' = [wpc EXCEPT ![t][w] = "sendRes"]
               /\ UNCHANGED pq
  /\ authed' = [authed EXCEPT ![t] = TRUE]
  /\ UNCHANGED <<workerRest, delivered, eres, eerr, wpw, published, hitMax>>

\* connection error: e.consecutiveErrors++
W_Inc(t, w) ==
  /\ wpc[t][w] = "inc"
  /\ consec' = [consec EXCEPT ![t] = @ + 1]
  /\ hitMax' = IF consec[t] + 1 >= maxConsec[t] THEN [hitMax EXCEPT ![t] = TRUE] ELSE hitMax
  /\ wpc' = [wpc EXCEPT ![t][w] = IF IsTimeoutError(wout[t][w]) THEN "toRead" ELSE "sendErr"]
  /\ UNCHANGED <<workerRest, authVars, pq, delivered, eres, eerr, wpw, wout, faultsLeft, published,
                 faulted>>

\* newTimeout := e.currentTimeout + 500ms, capped at e.maxTimeout
IncreasedTimeout(cur, max) == Min(cur + TimeoutStepMs, max)

\* increaseTimeout, first half: newTimeout is computed from the field as read.
\* The field is read and written without a lock, so the read and the write
\* of one call are separate steps.
W_TimeoutRead(t, w) ==
  /\ wpc[t][w] = "toRead"
  /\ wnew' = [wnew EXCEPT ![t][w] = IncreasedTimeout(curTimeout[t], maxTimeout[t])]
  /\ wpc' = [wpc EXCEPT ![t][w] = "toWrite"]
  /\ UNCHANGED <<workerBase, authVars, curTimeout, maxTimeout, pq, delivered, consec, eres,
                 eerr, wpw, wout, faultsLeft, published, faulted, connFailed, hitMax>>

\* increaseTimeout, second half: if newTimeout != e.currentTimeout { e.currentTimeout = newTimeout }
W_TimeoutWrite(t, w) ==
  /\ wpc[t][w] = "toWrite"
  /\ curTimeout' = [curTimeout EXCEPT ![t] = IF wnew[t][w] # @ THEN wnew[t][w] ELSE @]
  /\ wnew' = [wnew EXCEPT ![t][w] = 0]
  /\ wpc' = [wpc EXCEPT ![t][w] = "sendErr"]
  /\ UNCHANGED <<workerBase, authVars, maxTimeout, pq, delivered, consec, eres, eerr, wpw,
                 wout, faultsLeft, published, faulted, connFailed, hitMax>>

\* connection error: select { case e.errors <- err: continue; case <-e.ctx.Done(): return }
W_SendErr(t, w) ==
  /\ wpc[t][w] = "sendErr"
  /\ \/ /\ Len(eerr[t]) < nW
        /\ eerr' = [eerr EXCEPT ![t] = Append(@, "err")]
        /\ wpc' = [wpc EXCEPT ![t][w] = "check"]
     \/ /\ cancelled
        /\ UNCHANGED eerr
        /\ wpc' = [wpc EXCEPT ![t][w] = "exit"]
  /\ wpw' = [wpw EXCEPT ![t][w] = NoPassword]
  /\ wout' = [wout EXCEPT ![t][w] = "none"]
  /\ UNCHANGED <<workerRest, authVars, pq, delivered, consec, eres, faultsLeft, published,
                 faulted, connFailed, hitMax>>

\* the worker leaves after publishing a successful Result
W_SendRes_StopOnSuccess(t, w) ==
  /\ wpc[t][w] = "sendRes"
  /\ \/ /\ Len(eres[t]) < 2 * nW
        /\ eres' = [eres EXCEPT ![t] = Append(@, Result(wpw[t][w], wout[t][w]))]
        /\ published' = [published EXCEPT ![t][wpw[t][w]] = @ + 1]
        /\ wpc' = [wpc EXCEPT ![t][w] = IF wout[t][w] = "ok" THEN "exit" ELSE "check"]
     \/ /\ cancelled
        /\ UNCHANGED <<eres, published>>
        /\ wpc' = [wpc EXCEPT ![t][w] = "exit"]
  /\ wpw' = [wpw EXCEPT ![t][w] = NoPassword]
  /\ wout' = [wout EXCEPT ![t][w] = "none"]
  /\ UNCHANGED <<workerRest, authVars, pq, delivered, consec, eerr, faultsLeft, faulted, hitMax>>

\* select { case e.results <- result: case <-e.ctx.Done(): return }
W_SendRes(t, w) ==
  /\ wpc[t][w] = "sendRes"
  /\ \/ /\ Len(eres[t]) < 2 * nW
        /\ eres' = [eres EXCEPT ![t] = Append(@, Result(wpw[t][w], wout[t][w]))]
        /\ published' = [published EXCEPT ![t][wpw[t][w]] = @ + 1]
        /\ wpc' = [wpc EXCEPT ![t][w] = "check"]
     \/ /\ cancelled
        /\ UNCHANGED <<eres, published>>
        /\ wpc' = [wpc EXCEPT ![t][w] = "exit"]
  /\ wpw' = [wpw EXCEPT ![t][w] = NoPassword]
  /\ wout' = [wout EXCEPT ![t][w] = "none"]
  /\ UNCHANGED <<workerRest, authVars, pq, delivered, consec, eerr, faultsLeft, faulted, connFailed, hitMax>>

\* closeChannels without the once-flag: the channels are closed at every call
CloseChannels_Unguarded(closed, n) == [closed |-> TRUE, closes |-> n + 1]

\* closeChannels: if !e.closed { e.closed = true; close(e.results); close(e.errors) },
\* under closeMu; n counts the executions of the two close statements
CloseChannels(closed, n) ==
  IF ~closed THEN [closed |-> TRUE, closes |-> n + 1]
  ELSE [closed |-> closed, closes |-> n]

\* the goroutine Start and StartWithContext leave behind: e.wg.Wait();
\* e.closeChannels().  A call that finds the channels closed changes nothing.
Janitor(t) ==
  /\ started[t]
  /\ AllWorkersExited(t)
  /\ ~eclosed[t]
  /\ LET c == CloseChannels(eclosed[t], closes[t]) IN
       /\ eclosed' = [eclosed EXCEPT ![t] = c.closed]
       /\ closes' = [closes EXCEPT ![t] = c.closes]
  /\ UNCHANGED <<cfgVars, cancelled, queueVars, multiVars, trackerVars, driverVars, runVars, readVars, callVars,
                 consec, maxConsec, eres, eerr, started, wpc, wpw, wout, faultsLeft,
                 published, faulted, connFailed, hitMax, authVars, timeoutVars>>


(***************************************************************************)
(* core.MultiTargetEngine.processTarget                                    *)
(***************************************************************************)
ptFrame == <<cfgVars, cancelled, driverVars, runVars, readVars, callVars, authVars, timeoutVars, faultsLeft, ungets, chanClosed, procPc,
             stopPc, saved, accepted, sendLog, asPc>>

\* passwordsCopy: the entries after the first s, when 0 < s < len; else all of them
PasswordsCopy(pws, s) ==
  IF s > 0 /\ s < Len(pws) THEN SubSeq(pws, s + 1, Len(pws)) ELSE pws

\* a slot is taken although all C are in use
PT_Acquire_NoCap(t) ==
  /\ tpc[t] = "sem"
  /\ sem' = sem + 1
  /\ tpc' = [tpc EXCEPT ![t] = "init"]
  /\ UNCHANGED <<ptFrame, queueVars, engineVars, updateChan, rs, dirty, startIdx,
                 collected, csuccess, cpassword, rcDone, ecDone, resultsChan, errorsChan,
                 outerClosed, gotResults, gotErrors, exitPath>>

\* select { case semaphore <- struct{}{}: ...; case <-mte.ctx.Done(): return }
PT_Acquire(t) ==
  /\ tpc[t] = "sem"
  /\ sem < nC
  /\ sem' = sem + 1
  /\ tpc' = [tpc EXCEPT ![t] = "init"]
  /\ UNCHANGED <<ptFrame, queueVars, engineVars, updateChan, rs, dirty, startIdx,
                 collected, csuccess, cpassword, rcDone, ecDone, resultsChan, errorsChan,
                 outerClosed, gotResults, gotErrors, exitPath>>

\* case <-mte.ctx.Done(): return
PT_CancelSkip(t) ==
  /\ tpc[t] = "sem"
  /\ cancelled
  /\ tpc' = [tpc EXCEPT ![t] = "done"]
  /\ exitPath' = [exitPath EXCEPT ![t] = "cancelSkip"]
  /\ UNCHANGED <<ptFrame, queueVars, engineVars, updateChan, rs, dirty, sem, startIdx,
                 collected, csuccess, cpassword, rcDone, ecDone, resultsChan, errorsChan,
                 outerClosed, gotResults, gotErrors>>

\* the result of the pre-flight Connect is ignored
PT_Preflight_IgnoreConnect(t) ==
  /\ tpc[t] = "init"
  /\ tpc' = [tpc EXCEPT ![t] = IF initFails[t] THEN "errInit" ELSE "resume"]
  /\ UNCHANGED <<ptFrame, queueVars, engineVars, updateChan, rs, dirty, sem, startIdx,
                 collected, csuccess, cpassword, rcDone, ecDone, resultsChan, errorsChan,
                 outerClosed, gotResults, gotErrors, exitPath>>

\* module.Initialize, then the pre-flight module.Connect and module.Close.
\* Connect is given a context derived from the parent's, so once the parent
\* is cancelled it may fail for a reachable target too (a dialing module) or
\* still succeed (a module that does not dial).
PT_Preflight(t) ==
  /\ tpc[t] = "init"
  /\ \/ /\ initFails[t]
        /\ tpc' = [tpc EXCEPT ![t] = "errInit"]
     \/ /\ ~initFails[t]
        /\ ~reachable[t] \/ cancelled
        /\ tpc' = [tpc EXCEPT ![t] = "errConn"]
     \/ /\ ~initFails[t]
        /\ reachable[t]
        /\ tpc' = [tpc EXCEPT ![t] = "resume"]
  /\ UNCHANGED <<ptFrame, queueVars, engineVars, updateChan, rs, dirty, sem, startIdx,
                 collected, csuccess, cpassword, rcDone, ecDone, resultsChan, errorsChan,
                 outerClosed, gotResults, gotErrors, exitPath>>

\* MultiTargetError{Target: target, Error: err}: err is Initialize's or Connect's
MultiTargetError(t) ==
  [target |-> t, error |-> IF tpc[t] = "errInit" THEN "initialize" ELSE "connect"]

\* the error is sent, but the task carries on with the attack
PT_SendErr_NoReturn(t) ==
  /\ tpc[t] \in {"errInit", "errConn"}
  /\ Len(errorsChan) < nC
  /\ errorsChan' = Append(errorsChan, MultiTargetError(t))
  /\ tpc' = [tpc EXCEPT ![t] = "resume"]
  /\ UNCHANGED <<ptFrame, queueVars, engineVars, updateChan, rs, dirty, startIdx, sem,
                 collected, csuccess, cpassword, rcDone, ecDone, resultsChan,
                 outerClosed, gotResults, gotErrors, exitPath>>

\* mte.errorsChan <- MultiTargetError{...}; return
PT_SendErr(t) ==
  /\ tpc[t] \in {"errInit", "errConn"}
  /\ Len(errorsChan) < nC
  /\ errorsChan' = Append(errorsChan, MultiTargetError(t))
  /\ tpc' = [tpc EXCEPT ![t] = "done"]
  /\ exitPath' = [exitPath EXCEPT ![t] = "error"]
  /\ sem' = sem - 1
  /\ UNCHANGED <<ptFrame, queueVars, engineVars, updateChan, rs, dirty, startIdx,
                 collected, csuccess, cpassword, rcDone, ecDone, resultsChan,
                 outerClosed, gotResults, gotErrors>>

\* the probe that never finds a completed record
AlreadyCompleted_Never(t) == FALSE

\* progress != nil && progress.Completed, of the resume probe
AlreadyCompleted(t) == trackerOn /\ rs[ResumeState_IndexOf(t)].completed

\* the resume probe, NewEngine and its configuration, LoadPasswords,
\* StartWithContext and the start of the two collectors
PT_Resume(t) ==
  /\ tpc[t] = "resume"
  /\ IF AlreadyCompleted(t)
     THEN /\ tpc' = [tpc EXCEPT ![t] = "done"]
          /\ exitPath' = [exitPath EXCEPT ![t] = "completedSkip"]
          /\ sem' = sem - 1
          /\ UNCHANGED <<startIdx, pq, maxConsec, started, wpc>>
     ELSE LET s == IF trackerOn THEN rs[ResumeState_IndexOf(t)].tried ELSE 0
              copy == PasswordsCopy(passwords, s)
          IN /\ startIdx' = [startIdx EXCEPT ![t] = s]
             /\ maxConsec' = [maxConsec EXCEPT ![t] =
                  IF mteMaxConsec > 0 THEN mteMaxConsec
                  ELSE DefaultMaxConsecErrors]
             /\ pq' = [pq EXCEPT ![t] = NewPasswordQueue(copy)]
             /\ started' = [started EXCEPT ![t] = Len(copy) > 0]
             /\ wpc' = [wpc EXCEPT ![t] =
                  [w \in WorkerIds |-> IF Len(copy) > 0 /\ w \in Workers
                                       THEN "start" ELSE "none"]]
             /\ tpc' = [tpc EXCEPT ![t] = "wait"]
             /\ UNCHANGED <<sem, exitPath>>
  /\ UNCHANGED <<ptFrame, delivered, consec, eres, eerr, eclosed, closes, wpw, wout, published,
                 faulted, connFailed, hitMax, updateChan, rs, dirty, collected, csuccess, cpassword,
                 rcDone, ecDone, resultsChan, errorsChan, outerClosed, gotResults,
                 gotErrors>>

\* engine.WaitForCompletion(); engine.Close()
PT_Wait(t) ==
  /\ tpc[t] = "wait"
  /\ AllWorkersExited(t)
  /\ LET c == CloseChannels(eclosed[t], closes[t]) IN
       /\ eclosed' = [eclosed EXCEPT ![t] = c.closed]
       /\ closes' = [closes EXCEPT ![t] = c.closes]
  /\ tpc' = [tpc EXCEPT ![t] = "join"]
  /\ UNCHANGED <<ptFrame, queueVars, consec, maxConsec, eres, eerr, started, wpc, wpw,
                 wout, published, faulted, connFailed, hitMax, updateChan, rs, dirty, sem, startIdx,
                 collected, csuccess, cpassword, rcDone, ecDone, resultsChan, errorsChan,
                 outerClosed, gotResults, gotErrors, exitPath>>

\* the results collector: one iteration of  for result := range engine.Results()
RC_Recv(t) ==
  /\ tpc[t] \in {"wait", "join"}
  /\ ~rcDone[t]
  /\ eres[t] # <<>>
  /\ LET r == Head(eres[t])
         n == collected[t] + 1
     IN /\ eres' = [eres EXCEPT ![t] = Tail(@)]
        /\ collected' = [collected EXCEPT ![t] = n]
        /\ csuccess' = IF r.success THEN [csuccess EXCEPT ![t] = TRUE] ELSE csuccess
        /\ cpassword' = IF r.success THEN [cpassword EXCEPT ![t] = r.password]
                        ELSE cpassword
        /\ updateChan' =
             IF trackerOn /\ n % ProgressEvery = 0
             THEN Tracker_Enqueue(updateChan,
                    Update(t, startIdx[t] + n, FALSE, FALSE, NoPassword, FALSE, consec[t]))
             ELSE updateChan
  /\ UNCHANGED <<ptFrame, queueVars, consec, maxConsec, eerr, eclosed, closes, started, wpc, wpw,
                 wout, published, faulted, connFailed, hitMax, rs, dirty, tpc, sem, startIdx, rcDone,
                 ecDone, resultsChan, errorsChan, outerClosed, gotResults, gotErrors,
                 exitPath>>

\* the results collector leaves its loop: the channel is closed and drained
RC_Done(t) ==
  /\ tpc[t] \in {"wait", "join"}
  /\ ~rcDone[t]
  /\ eres[t] = <<>>
  /\ eclosed[t]
  /\ rcDone' = [rcDone EXCEPT ![t] = TRUE]
  /\ UNCHANGED <<ptFrame, queueVars, engineVars, updateChan, rs, dirty, tpc, sem,
                 startIdx, collected, csuccess, cpassword, ecDone, resultsChan,
                 errorsChan, outerClosed, gotResults, gotErrors, exitPath>>

\* the errors collector: one iteration of  for err := range engine.Errors()
EC_Recv(t) ==
  /\ tpc[t] \in {"wait", "join"}
  /\ ~ecDone[t]
  /\ eerr[t] # <<>>
  /\ eerr' = [eerr EXCEPT ![t] = Tail(@)]
  /\ UNCHANGED <<ptFrame, queueVars, consec, maxConsec, eres, eclosed, closes, started, wpc, wpw,
                 wout, published, faulted, connFailed, hitMax, updateChan, rs, dirty, tpc, sem,
                 startIdx, collected, csuccess, cpassword, rcDone, ecDone, resultsChan,
                 errorsChan, outerClosed, gotResults, gotErrors, exitPath>>

EC_Done(t) ==
  /\ tpc[t] \in {"wait", "join"}
  /\ ~ecDone[t]
  /\ eerr[t] = <<>>
  /\ eclosed[t]
  /\ ecDone' = [ecDone EXCEPT ![t] = TRUE]
  /\ UNCHANGED <<ptFrame, queueVars, engineVars, updateChan, rs, dirty, tpc, sem,
                 startIdx, collected, csuccess, cpassword, rcDone, resultsChan,
                 errorsChan, outerClosed, gotResults, gotErrors, exitPath>>

\* the final tracker update of processTarget
\* the configured value is used as it is, 0 included
FinalUpdate_NoDefault(t) ==
  LET isDead == consec[t] >= mteMaxConsec
  IN Update(t, startIdx[t] + collected[t], TRUE, csuccess[t], cpassword[t],
            isDead, consec[t])

\* the final update: maxErrors := mte.maxConsecErrors, 5 if that is 0
FinalUpdate(t) ==
  LET maxErrors == IF mteMaxConsec = 0 THEN DefaultMaxConsecErrors
                   ELSE mteMaxConsec
      isDead == consec[t] >= maxErrors
  IN Update(t, startIdx[t] + collected[t], TRUE, csuccess[t], cpassword[t],
            isDead, consec[t])

\* <-resultsDone; <-errorsDone; the final UpdateTargetProgress
PT_Final(t) ==
  /\ tpc[t] = "join"
  /\ rcDone[t] /\ ecDone[t]
  /\ updateChan' = IF trackerOn THEN Tracker_Enqueue(updateChan, FinalUpdate(t))
                   ELSE updateChan
  /\ tpc' = [tpc EXCEPT ![t] = "publish"]
  /\ UNCHANGED <<ptFrame, queueVars, engineVars, rs, dirty, sem, startIdx, collected,
                 csuccess, cpassword, rcDone, ecDone, resultsChan, errorsChan,
                 outerClosed, gotResults, gotErrors, exitPath>>

MultiTargetResult(t) ==
  [target |-> t, attempts |-> collected[t], success |-> csuccess[t],
   successPassword |-> cpassword[t]]

\* the result is dropped when the parent context is cancelled
PT_Publish_DropOnCancel(t) ==
  /\ tpc[t] = "publish"
  /\ IF cancelled
     THEN /\ exitPath' = [exitPath EXCEPT ![t] = "cancelSkip"]
          /\ UNCHANGED resultsChan
     ELSE /\ Len(resultsChan) < nC
          /\ resultsChan' = Append(resultsChan, MultiTargetResult(t))
          /\ exitPath' = [exitPath EXCEPT ![t] = "result"]
  /\ tpc' = [tpc EXCEPT ![t] = "done"]
  /\ sem' = sem - 1
  /\ UNCHANGED <<ptFrame, queueVars, engineVars, updateChan, rs, dirty, startIdx,
                 collected, csuccess, cpassword, rcDone, ecDone, errorsChan,
                 outerClosed, gotResults, gotErrors>>

\* mte.resultsChan <- MultiTargetResult{...}
PT_Publish(t) ==
  /\ tpc[t] = "publish"
  /\ Len(resultsChan) < nC
  /\ resultsChan' = Append(resultsChan, MultiTargetResult(t))
  /\ tpc' = [tpc EXCEPT ![t] = "done"]
  /\ exitPath' = [exitPath EXCEPT ![t] = "result"]
  /\ sem' = sem - 1
  /\ UNCHANGED <<ptFrame, queueVars, engineVars, updateChan, rs, dirty, startIdx,
                 collected, csuccess, cpassword, rcDone, ecDone, errorsChan,
                 outerClosed, gotResults, gotErrors>>

\* the closer does not wait for every task
CloseOuter_AnyDone ==
  /\ ~outerClosed
  /\ \E t \in Targets : tpc[t] = "done"
  /\ outerClosed' = TRUE
  /\ UNCHANGED <<ptFrame, queueVars, engineVars, updateChan, rs, dirty, tpc, sem,
                 startIdx, collected, csuccess, cpassword, rcDone, ecDone, resultsChan,
                 errorsChan, gotResults, gotErrors, exitPath>>

\* Start's closer goroutine: mte.wg.Wait(); close(resultsChan); close(errorsChan)
CloseOuter ==
  /\ ~outerClosed
  /\ \A t \in Targets : tpc[t] = "done"
  /\ outerClosed' = TRUE
  /\ UNCHANGED <<ptFrame, queueVars, engineVars, updateChan, rs, dirty, tpc, sem,
                 startIdx, collected, csuccess, cpassword, rcDone, ecDone, resultsChan,
                 errorsChan, gotResults, gotErrors, exitPath>>

\* the consumer of the outer channels
ConsumeResult ==
  /\ resultsChan # <<>>
  /\ gotResults' = Append(gotResults, Head(resultsChan))
  /\ resultsChan' = Tail(resultsChan)
  /\ UNCHANGED <<ptFrame, queueVars, engineVars, updateChan, rs, dirty, tpc, sem,
                 startIdx, collected, csuccess, cpassword, rcDone, ecDone, errorsChan,
                 outerClosed, gotErrors, exitPath>>

ConsumeError ==
  /\ errorsChan # <<>>
  /\ gotErrors' = Append(gotErrors, Head(errorsChan))
  /\ errorsChan' = Tail(errorsChan)
  /\ UNCHANGED <<ptFrame, queueVars, engineVars, updateChan, rs, dirty, tpc, sem,
                 startIdx, collected, csuccess, cpassword, rcDone, ecDone, resultsChan,
                 outerClosed, gotResults, exitPath>>

\* the parent context is cancelled
Cancel ==
  /\ ~cancelled
  /\ ~outerClosed
  /\ cancelled' = TRUE
  /\ UNCHANGED <<cfgVars, queueVars, engineVars, multiVars, trackerVars, driverVars, runVars, readVars, callVars>>

\* updateProcessor: one update received and applied under the writer lock
TP_Apply ==
  /\ trackerOn
  /\ procPc = "run"
  /\ updateChan # <<>>
  /\ rs' = ApplyUpdate(rs, Head(updateChan))
  /\ updateChan' = Tail(updateChan)
  /\ dirty' = TRUE
  /\ UNCHANGED <<cfgVars, cancelled, queueVars, engineVars, multiVars, driverVars, runVars, readVars, callVars,
                 chanClosed, procPc, stopPc, saved, accepted, sendLog, asPc>>

\* updateProcessor: case <-ctx.Done(): return
TP_CtxDone ==
  /\ trackerOn
  /\ procPc = "run"
  /\ cancelled
  /\ procPc' = "done"
  /\ UNCHANGED <<cfgVars, cancelled, queueVars, engineVars, multiVars, driverVars, runVars, readVars, callVars,
                 updateChan, chanClosed, rs, stopPc, saved, dirty, accepted, sendLog,
                 asPc>>


(***************************************************************************)
(* Engine layer: MultiTargetEngine.Start over the loaded targets, with the *)
(* tracker's processor applying the updates it is sent.                    *)
(***************************************************************************)
\* what the resume file can hold for a target of an earlier run: nothing, a
\* periodic checkpoint (a multiple of ProgressEvery, not completed), or a
\* completed record
ResumeRecords(n) ==
  {NoProgress}
    \cup {[NoProgress EXCEPT !.tried = k * ProgressEvery] :
            k \in {j \in 1..n : j * ProgressEvery <= n}}
    \cup {[NoProgress EXCEPT !.tried = n, !.completed = TRUE]}

\* one target attacked by one or two workers
InitSingle ==
  /\ nT = 1 /\ nC = 1
  /\ nW \in WorkerIds
  /\ passwords \in {Wordlist(n) : n \in 0..MaxPasswords}
  /\ \E a \in 0..Min(1, Len(passwords)) : accepts = [t \in TargetIds |-> IF t = 1 THEN a ELSE NoPassword]
  /\ initFails = [t \in TargetIds |-> FALSE]
  /\ \E r \in BOOLEAN : reachable = [t \in TargetIds |-> r]
  /\ faultsLeft \in 0..MaxFaults
  /\ trackerOn \in BOOLEAN
  /\ mteMaxConsec = MteMaxConsecErrors
  /\ addr = [t \in TargetIds |-> t]
  /\ ownCtx = FALSE
  /\ \E r \in ResumeRecords(Len(passwords)) :
       rs = [t \in TargetIds |-> IF trackerOn /\ t = 1 THEN r ELSE NoProgress]

\* two targets, one worker each, sharing one or two semaphore slots
InitPair ==
  /\ nT = 2 /\ nW = 1
  /\ nC \in 1..2
  /\ passwords = Wordlist(1)
  /\ accepts = [t \in TargetIds |-> NoPassword]
  /\ initFails \in [TargetIds -> BOOLEAN]
  /\ reachable \in [TargetIds -> BOOLEAN]
  /\ faultsLeft = 0
  /\ trackerOn \in BOOLEAN
  /\ mteMaxConsec = MteMaxConsecErrors
  /\ addr = [t \in TargetIds |-> t]
  /\ ownCtx = FALSE
  /\ \E c \in BOOLEAN :
       rs = [t \in TargetIds |-> IF trackerOn /\ c /\ t = 1
                                 THEN [NoProgress EXCEPT !.tried = 1, !.completed = TRUE]
                                 ELSE NoProgress]

\* one target, one worker, no --max-conseq-err-per-host given, and an
\* environment that can fail as often as the default threshold
InitUnconfigured ==
  /\ nT = 1 /\ nC = 1 /\ nW = 1
  /\ passwords = Wordlist(1)
  /\ \E a \in 0..1 : accepts = [t \in TargetIds |-> IF t = 1 THEN a ELSE NoPassword]
  /\ initFails = [t \in TargetIds |-> FALSE]
  /\ reachable = [t \in TargetIds |-> TRUE]
  /\ faultsLeft \in {1, DefaultMaxConsecErrors}
  /\ trackerOn = TRUE
  /\ mteMaxConsec = 0
  /\ addr = [t \in TargetIds |-> t]
  /\ ownCtx = FALSE
  /\ rs = [t \in TargetIds |-> NoProgress]

\* Start over an empty target list
InitNone ==
  /\ nT = 0 /\ nC = 1 /\ nW = 1
  /\ passwords = Wordlist(1)
  /\ accepts = [t \in TargetIds |-> NoPassword]
  /\ initFails = [t \in TargetIds |-> FALSE]
  /\ reachable = [t \in TargetIds |-> TRUE]
  /\ faultsLeft = 0
  /\ trackerOn = FALSE
  /\ mteMaxConsec = MteMaxConsecErrors
  /\ addr = [t \in TargetIds |-> t]
  /\ ownCtx = FALSE
  /\ rs = [t \in TargetIds |-> NoProgress]

Init ==
  /\ InitSingle \/ InitPair \/ InitNone \/ InitUnconfigured
  /\ cancelled = FALSE
  /\ ReadIdle /\ CallIdle
  /\ QueueIdle /\ DriverIdle
  /\ consec = [t \in TargetIds |-> 0]
  /\ maxConsec = [t \in TargetIds |-> DefaultMaxConsecErrors]
  /\ eres = [t \in TargetIds |-> <<>>]
  /\ eerr = [t \in TargetIds |-> <<>>]
  /\ eclosed = [t \in TargetIds |-> FALSE]
  /\ started = [t \in TargetIds |-> FALSE]
  /\ wpc = [t \in TargetIds |-> [w \in WorkerIds |-> "none"]]
  /\ wpw = [t \in TargetIds |-> [w \in WorkerIds |-> NoPassword]]
  /\ wout = [t \in TargetIds |-> [w \in WorkerIds |-> "none"]]
  /\ published = [t \in TargetIds |-> [p \in 1..MaxPasswords |-> 0]]
  /\ faulted = [t \in TargetIds |-> FALSE]
  /\ connFailed = [t \in TargetIds |-> FALSE]
  /\ hitMax = [t \in TargetIds |-> FALSE]
  /\ authed = [t \in TargetIds |-> FALSE]
  /\ closes = [t \in TargetIds |-> 0]
  /\ ioTimeouts = [t \in TargetIds |-> 0]
  /\ protoErr = [t \in TargetIds |-> FALSE]
  /\ faultRun = [t \in TargetIds |-> 0]
  /\ timeoutsLeft = 0
  /\ curTimeout = [t \in TargetIds |-> InitialTimeoutMs]
  /\ maxTimeout = [t \in TargetIds |-> MaxTimeoutMs]
  /\ wnew = [t \in TargetIds |-> [w \in WorkerIds |-> 0]]
  /\ RunIdle
  /\ tpc = [t \in TargetIds |-> IF t <= nT THEN "sem" ELSE "none"]
  /\ sem = 0
  /\ startIdx = [t \in TargetIds |-> 0]
  /\ collected = [t \in TargetIds |-> 0]
  /\ csuccess = [t \in TargetIds |-> FALSE]
  /\ cpassword = [t \in TargetIds |-> NoPassword]
  /\ rcDone = [t \in TargetIds |-> FALSE]
  /\ ecDone = [t \in TargetIds |-> FALSE]
  /\ resultsChan = <<>>
  /\ errorsChan = <<>>
  /\ outerClosed = FALSE
  /\ gotResults = <<>>
  /\ gotErrors = <<>>
  /\ exitPath = [t \in TargetIds |-> "none"]
  /\ updateChan = <<>>
  /\ chanClosed = FALSE
  /\ procPc = "run"
  /\ stopPc = "idle"
  /\ saved = <<>>
  /\ dirty = FALSE
  /\ accepted = <<>>
  /\ sendLog = <<>>
  /\ asPc = "none"

Next ==
  \/ \E t \in Targets : PT_Acquire(t)
  \/ \E t \in Targets : PT_CancelSkip(t)
  \/ \E t \in Targets : PT_Preflight(t)
  \/ \E t \in Targets : PT_SendErr(t)
  \/ \E t \in Targets : PT_Resume(t)
  \/ \E t \in Targets : PT_Wait(t)
  \/ \E t \in Targets : RC_Recv(t)
  \/ \E t \in Targets : RC_Done(t)
  \/ \E t \in Targets : EC_Recv(t)
  \/ \E t \in Targets : EC_Done(t)
  \/ \E t \in Targets : PT_Final(t)
  \/ \E t \in Targets : PT_Publish(t)
  \/ \E t \in Targets : Janitor(t)
  \/ \E t \in Targets : \E w \in Workers : W_Connect(t, w)
  \/ \E t \in Targets : \E w \in Workers : W_ConnErr(t, w)
  \/ \E t \in Targets : \E w \in Workers : W_Check(t, w)
  \/ \E t \in Targets : \E w \in Workers : W_Next(t, w)
  \/ \E t \in Targets : \E w \in Workers : W_Auth(t, w)
  \/ \E t \in Targets : \E w \in Workers : W_Inc(t, w)
  \/ \E t \in Targets : \E w \in Workers : W_SendErr(t, w)
  \/ \E t \in Targets : \E w \in Workers : W_SendRes(t, w)
  \/ CloseOuter \/ ConsumeResult \/ ConsumeError \/ Cancel
  \/ TP_Apply \/ TP_CtxDone

Spec == Init /\ [][Next]_vars


(***************************************************************************)
(* Properties of the engine layer.                                         *)
(***************************************************************************)
CountFor(seq, t) == Cardinality({i \in 1..Len(seq) : seq[i].target = t})

\* MultiTargetResults and MultiTargetErrors published for target t so far
ResultsFor(t) == CountFor(gotResults \o resultsChan, t)
ErrorsFor(t) == CountFor(gotErrors \o errorsChan, t)

Range(seq) == {seq[i] : i \in 1..Len(seq)}

\* C4: in a run that is not cancelled and whose host is not declared dead,
\* every entry of the list the engine was loaded with has a published
\* Result when the target's task has finished, whatever faults occurred.
C4_NoEntrySkipped ==
  \A t \in Targets :
    (exitPath[t] = "result" /\ ~cancelled /\ ~hitMax[t] /\ ~connFailed[t]) =>
      \A p \in Range(pq[t].passwords) : published[t][p] >= 1

C7_DeadRecord ==
  \A t \in Targets :
    (trackerOn /\ hitMax[t] /\ ~cancelled /\ exitPath[t] = "result" /\ rs[t].completed) =>
      /\ rs[t].dead
      /\ ~rs[t].success
      /\ collected[t] < Len(pq[t].passwords)

\* C10: a target resumed with passwords_tried = n > 0 has its engine loaded
\* with the entries n+1 .. N of the wordlist, for every n > 0.
C10_ResumeSkipsFirstN ==
  \A t \in Targets :
    (trackerOn /\ tpc[t] \in {"wait", "join", "publish"} /\ startIdx[t] > 0) =>
      pq[t].passwords = SubSeq(passwords, startIdx[t] + 1, Len(passwords))

\* C11: a target the tracker records as completed when its task probes the
\* tracker is skipped: no engine is started for it, none of its workers
\* exists, no Authenticate call is made against it and nothing is published;
\* and an engine only ever runs for a target not recorded as completed.
C11_CompletedTargetSkipped ==
  \A t \in Targets :
    /\ exitPath[t] = "completedSkip" =>
         /\ ~started[t] /\ ~authed[t]
         /\ \A w \in WorkerIds : wpc[t][w] = "none"
         /\ pq[t] = NewPasswordQueue(<<>>)
         /\ collected[t] = 0
         /\ ResultsFor(t) = 0
    /\ (trackerOn /\ tpc[t] \in {"wait", "join"}) => ~rs[t].completed

\* Of two targets the completed one was skipped while the other was attacked.
C11_Witness ==
  /\ nT = 2
  /\ exitPath[1] = "completedSkip"
  /\ rs[1].completed
  /\ authed[2]
  /\ exitPath[2] = "result"

\* the tasks that hold a semaphore slot: past the acquisition, not yet returned
HoldsSlot(t) ==
  tpc[t] \in {"init", "errInit", "errConn", "resume", "wait", "join", "publish"}

\* C15: at most C tasks are past the semaphore at any time, the slots in use
\* are exactly the tasks past it, and module calls are made only under a
\* slot: Initialize and the pre-flight Connect can only be the next step of a
\* task that holds one, a worker runs only while its task holds one, and a
\* task that waits for a slot or gave up waiting has made no Authenticate call.
C15_AtMostCPastSemaphore ==
  /\ sem <= nC
  /\ Cardinality({t \in Targets : HoldsSlot(t)}) = sem
  /\ \A t \in Targets :
       /\ ENABLED PT_Preflight(t) => HoldsSlot(t)
       /\ (\E w \in Workers : wpc[t][w] \notin {"none", "exit"}) => HoldsSlot(t)
       /\ (tpc[t] = "sem" \/ exitPath[t] = "cancelSkip") => (~started[t] /\ ~authed[t])

\* Two targets and one slot: the first is under attack while the second
\* waits for the slot.
C15_Witness ==
  /\ nT = 2 /\ nC = 1
  /\ sem = 1
  /\ tpc[1] = "sem"
  /\ tpc[2] = "wait"
  /\ authed[2]

\* the MultiTargetErrors published so far
ErrorsPublished == gotErrors \o errorsChan

\* C16: a target whose Initialize or pre-flight Connect fails never gets an
\* engine, workers or an Authenticate call and never a MultiTargetResult; its
\* task ends by the error path, and a task that ended by the error path has
\* published exactly one MultiTargetError, which names the target and
\* carries the error of the call that failed.
C16_PreflightFailureOneError ==
  \A t \in Targets :
    /\ (initFails[t] \/ ~reachable[t]) =>
         /\ ~started[t] /\ ~authed[t]
         /\ \A w \in WorkerIds : wpc[t][w] = "none"
         /\ ResultsFor(t) = 0
         /\ (tpc[t] = "done" /\ exitPath[t] # "cancelSkip") => exitPath[t] = "error"
    /\ exitPath[t] = "error" =>
         /\ ErrorsFor(t) = 1 /\ ResultsFor(t) = 0
         /\ ~started[t] /\ ~authed[t]
         /\ \A i \in 1..Len(ErrorsPublished) :
              ErrorsPublished[i].target = t =>
                ErrorsPublished[i].error = IF initFails[t] THEN "initialize" ELSE "connect"
    /\ tpc[t] \in {"errInit", "errConn"} => ErrorsFor(t) = 0

\* Two targets, both failed: one at Initialize, one at the pre-flight
\* Connect; the consumer holds one error for each and the channels are closed.
C16_Witness ==
  /\ nT = 2
  /\ initFails[1] /\ ~initFails[2] /\ ~reachable[2]
  /\ exitPath[1] = "error" /\ exitPath[2] = "error"
  /\ Len(gotErrors) = 2
  /\ gotResults = <<>>
  /\ outerClosed

(***************************************************************************)
(* One target without a tracker, under fair scheduling: every goroutine    *)
(* that can take its next step eventually does, an Authenticate call       *)
(* returns, and the consumer keeps reading the outer channels.  The        *)
(* cancellation of the parent context is not forced.  The wordlist is      *)
(* empty or of full length, and the environment injects no fault or as     *)
(* many as there are workers, so that every start-up Connect can fail.     *)
(***************************************************************************)
InitCancel ==
  /\ Init /\ nT = 1 /\ ~trackerOn
  /\ Len(passwords) \in {0, MaxPasswords}
  /\ faultsLeft \in {0, nW}

NextCancel ==
  \/ PT_Acquire(1) \/ PT_CancelSkip(1) \/ PT_Preflight(1) \/ PT_SendErr(1)
  \/ PT_Resume(1) \/ PT_Wait(1) \/ PT_Final(1) \/ PT_Publish(1)
  \/ RC_Recv(1) \/ RC_Done(1) \/ EC_Recv(1) \/ EC_Done(1)
  \/ Janitor(1)
  \/ \E w \in Workers : W_Connect(1, w)
  \/ \E w \in Workers : W_ConnErr(1, w)
  \/ \E w \in Workers : W_Check(1, w)
  \/ \E w \in Workers : W_Next(1, w)
  \/ \E w \in Workers : W_Auth(1, w)
  \/ \E w \in Workers : W_Inc(1, w)
  \/ \E w \in Workers : W_SendErr(1, w)
  \/ \E w \in Workers : W_SendRes(1, w)
  \/ CloseOuter \/ ConsumeResult \/ ConsumeError \/ Cancel

FairCancel ==
  /\ WF_vars(PT_Acquire(1)) /\ WF_vars(PT_CancelSkip(1)) /\ WF_vars(PT_Preflight(1))
  /\ WF_vars(PT_SendErr(1)) /\ WF_vars(PT_Resume(1)) /\ WF_vars(PT_Wait(1))
  /\ WF_vars(PT_Final(1)) /\ WF_vars(PT_Publish(1))
  /\ WF_vars(RC_Recv(1)) /\ WF_vars(RC_Done(1))
  /\ WF_vars(EC_Recv(1)) /\ WF_vars(EC_Done(1))
  /\ WF_vars(Janitor(1))
  /\ \A w \in WorkerIds :
       /\ WF_vars(W_Connect(1, w)) /\ WF_vars(W_ConnErr(1, w)) /\ WF_vars(W_Check(1, w))
       /\ WF_vars(W_Next(1, w)) /\ WF_vars(W_Auth(1, w)) /\ WF_vars(W_Inc(1, w))
       /\ WF_vars(W_SendErr(1, w)) /\ WF_vars(W_SendRes(1, w))
  /\ WF_vars(CloseOuter) /\ WF_vars(ConsumeResult) /\ WF_vars(ConsumeError)

SpecCancel == InitCancel /\ [][NextCancel]_vars /\ FairCancel

\* C17: once the parent context is cancelled while a target's workers have
\* been started, the task still ends by publishing its MultiTargetResult,
\* after joining its workers and collectors; the result is the only
\* publication of the target, its attempts lie between 0 and the wordlist
\* length, and it reports no success when the device accepts no password.
C17_CancelledTaskStillPublishes ==
  /\ [](
        (cancelled /\ exitPath[1] = "result") =>
          /\ ResultsFor(1) = 1 /\ ErrorsFor(1) = 0
          /\ rcDone[1] /\ ecDone[1] /\ AllWorkersExited(1)
          /\ \A i \in 1..Len(gotResults \o resultsChan) :
               LET r == (gotResults \o resultsChan)[i] IN
                 /\ r.attempts >= 0 /\ r.attempts <= Len(passwords)
                 /\ accepts[1] = NoPassword => (~r.success /\ r.successPassword = NoPassword)
                 /\ r.success => r.successPassword = accepts[1])
  /\ (cancelled /\ started[1]) ~> (exitPath[1] = "result" /\ ResultsFor(1) = 1)

\* Cancelled in mid-run: the result was published and received with fewer
\* attempts than the wordlist has entries.
C17_Witness ==
  /\ cancelled /\ started[1]
  /\ exitPath[1] = "result"
  /\ Len(gotResults) = 1
  /\ gotResults[1].attempts < Len(passwords)
  /\ ~gotResults[1].success

\* C18: the engine's result and error channels are closed exactly once and
\* only when every worker has exited, whether the janitor or Close comes
\* first and also when every worker fails its start-up Connect; nothing is
\* sent on a closed channel; and an engine whose task waits for it does get
\* its channels closed.
C18_ChannelsClosedOnceAfterWorkers ==
  /\ [](/\ closes[1] <= 1
        /\ eclosed[1] <=> closes[1] = 1
        /\ eclosed[1] => AllWorkersExited(1)
        /\ tpc[1] \in {"join", "publish"} => eclosed[1]
        /\ tpc[1] = "done" /\ exitPath[1] = "result" => eclosed[1])
  /\ [][eclosed[1] => (Len(eres'[1]) <= Len(eres[1])
                        /\ Len(eerr'[1]) <= Len(eerr[1]))]_vars
  /\ (tpc[1] = "wait") ~> (closes[1] = 1)

\* Both workers failed their start-up Connect, the janitor or Close closed
\* the channels and Close has returned.
C18_Witness ==
  /\ nW = 2 /\ started[1] /\ ~cancelled
  /\ connFailed[1] /\ faultsLeft = 0 /\ ~authed[1]
  /\ \A w \in Workers : wpc[1][w] = "exit"
  /\ tpc[1] = "join"
  /\ eclosed[1] /\ closes[1] = 1

\* C19: the outer channels are closed only when every per-target task has
\* returned, and once every task has returned the closer can close them;
\* everything a task published was sent before the close; with no targets
\* the close is possible at once and nothing is ever published.
C19_OuterClosedIffAllTasksDone ==
  /\ outerClosed => \A t \in Targets : tpc[t] = "done"
  /\ (~outerClosed /\ \A t \in Targets : tpc[t] = "done") => ENABLED CloseOuter
  /\ (~outerClosed /\ \E t \in Targets : tpc[t] # "done") => ~ENABLED CloseOuter
  /\ outerClosed =>
       Len(gotResults) + Len(resultsChan) + Len(gotErrors) + Len(errorsChan)
         = Cardinality({t \in Targets : exitPath[t] \in {"result", "error"}})
  /\ nT = 0 => /\ resultsChan = <<>> /\ errorsChan = <<>>
               /\ gotResults = <<>> /\ gotErrors = <<>>
               /\ sem = 0

\* Two targets, both tasks returned, one with a result and one with an
\* error, and the outer channels closed after them.
C19_Witness ==
  /\ nT = 2 /\ outerClosed
  /\ exitPath[1] = "error" /\ exitPath[2] = "result"
  /\ Len(gotResults) = 1 /\ Len(gotErrors) = 1

\* C20: once the collector of a target has recorded a success, no worker of
\* that target that is back at the top of its loop, with no attempt in
\* flight, goes on to pull another password.
C20_StopsConsumingAfterSuccess ==
  [][\A t \in TargetIds : \A w \in WorkerIds :
       (csuccess[t] /\ wpc[t][w] = "check") => wpc'[t][w] # "next"]_vars

\* C21: in every MultiTargetResult a reported success names the wordlist
\* entry the device accepts; a target whose device accepts no entry gets
\* success=false and no password; and a target whose device accepts an
\* entry, attacked without faults and without cancellation, gets
\* success=true with that entry.
C21_AcceptedPasswordReported ==
  \A i \in 1..Len(gotResults \o resultsChan) :
    LET r == (gotResults \o resultsChan)[i]
        t == r.target
    IN /\ r.success => (r.successPassword \in 1..Len(passwords)
                          /\ r.successPassword = accepts[t])
       /\ ~r.success => r.successPassword = NoPassword
       /\ accepts[t] = NoPassword => ~r.success
       /\ (accepts[t] # NoPassword /\ ~faulted[t] /\ ~connFailed[t] /\ ~protoErr[t]
             /\ ~cancelled)
            => (r.success /\ r.successPassword = accepts[t])

\* the final updates of target t that wait in the tracker's channel
FinalUpdatesOf(t) ==
  {i \in 1..Len(updateChan) : updateChan[i].target = t /\ updateChan[i].completed}

C12_AttemptsWithinRemaining ==
  /\ \A i \in 1..Len(gotResults \o resultsChan) :
       LET r == (gotResults \o resultsChan)[i] IN
         r.attempts <= Len(passwords) - startIdx[r.target]
  /\ \A t \in Targets :
       (trackerOn /\ rs[t].completed) => rs[t].tried <= Len(passwords)

\* C13: in every record the tracker holds, dead implies completed and not
\* success.
C13_DeadImpliesCompletedNotSuccess ==
  \A t \in Targets :
    (trackerOn /\ rs[t].dead) => (rs[t].completed /\ ~rs[t].success)

(***************************************************************************)
(* Single-target run (runAttack): Engine.Start on one engine, the results  *)
(* loop that calls Engine.Stop at the first success, and the goroutine     *)
(* that drains the errors.  Here the workers' context is the engine's own, *)
(* cancelled by Stop.  The network may answer with i/o timeouts.  The      *)
(* timeouts of NewEngine (10 s, at most 30 s) are scaled to                *)
(* InitialTimeoutMs and MaxTimeoutMs.                                      *)
(***************************************************************************)
InitEngine(modes) ==
  /\ ownCtx \in modes
  /\ MultiIdle /\ TrackerIdle /\ DriverIdle
  /\ nT = 1 /\ nC = 1
  /\ nW \in WorkerIds
  /\ passwords \in {Wordlist(n) : n \in 1..MaxPasswords}
  /\ \E a \in 0..Len(passwords) : accepts = [t \in TargetIds |-> IF t = 1 THEN a ELSE NoPassword]
  /\ initFails = [t \in TargetIds |-> FALSE]
  /\ reachable = [t \in TargetIds |-> TRUE]
  /\ trackerOn = FALSE
  /\ mteMaxConsec = MteMaxConsecErrors
  /\ addr = [t \in TargetIds |-> t]
  /\ cancelled = FALSE
  /\ ReadIdle /\ CallIdle
  /\ pq = [t \in TargetIds |-> IF t = 1 THEN NewPasswordQueue(passwords)
                                ELSE NewPasswordQueue(<<>>)]
  /\ delivered = [t \in TargetIds |-> <<>>]
  /\ ungets = 0
  /\ consec = [t \in TargetIds |-> 0]
  /\ maxConsec = [t \in TargetIds |-> DefaultMaxConsecErrors]
  /\ eres = [t \in TargetIds |-> <<>>]
  /\ eerr = [t \in TargetIds |-> <<>>]
  /\ eclosed = [t \in TargetIds |-> FALSE]
  /\ closes = [t \in TargetIds |-> 0]
  /\ started = [t \in TargetIds |-> t = 1]
  /\ wpc = [t \in TargetIds |-> [w \in WorkerIds |->
              IF t = 1 /\ w \in Workers THEN "start" ELSE "none"]]
  /\ wpw = [t \in TargetIds |-> [w \in WorkerIds |-> NoPassword]]
  /\ wout = [t \in TargetIds |-> [w \in WorkerIds |-> "none"]]
  /\ faultsLeft \in {0, MaxFaults}
  /\ timeoutsLeft \in 0..MaxTimeouts
  /\ published = [t \in TargetIds |-> [p \in 1..MaxPasswords |-> 0]]
  /\ faulted = [t \in TargetIds |-> FALSE]
  /\ connFailed = [t \in TargetIds |-> FALSE]
  /\ hitMax = [t \in TargetIds |-> FALSE]
  /\ authed = [t \in TargetIds |-> FALSE]
  /\ ioTimeouts = [t \in TargetIds |-> 0]
  /\ protoErr = [t \in TargetIds |-> FALSE]
  /\ faultRun = [t \in TargetIds |-> 0]
  /\ curTimeout = [t \in TargetIds |-> InitialTimeoutMs]
  /\ maxTimeout = [t \in TargetIds |-> MaxTimeoutMs]
  /\ wnew = [t \in TargetIds |-> [w \in WorkerIds |-> 0]]
  /\ rpc = "loop"
  /\ rtotal = 0

\* runAttack starts its engine with Start()
InitRun == InitEngine({TRUE})

runFrame == <<cfgVars, queueVars, multiVars, trackerVars, driverVars, readVars, callVars, consec, maxConsec,
              started, wpc, wpw, wout, faultsLeft, published, faulted, connFailed, hitMax,
              authVars, timeoutVars>>

\* for result := range engine.Results(): one result received; a success
\* leads to engine.Stop() and break
R_Recv ==
  /\ rpc = "loop"
  /\ eres[1] # <<>>
  /\ eres' = [eres EXCEPT ![1] = Tail(@)]
  /\ rtotal' = rtotal + 1
  /\ rpc' = IF Head(eres[1]).success THEN "cancel" ELSE "loop"
  /\ UNCHANGED <<runFrame, cancelled, eerr, eclosed, closes>>

\* the range loop ends: the channel is closed and drained
R_LoopEnd ==
  /\ rpc = "loop"
  /\ eres[1] = <<>>
  /\ eclosed[1]
  /\ rpc' = "done"
  /\ UNCHANGED <<runFrame, cancelled, eres, eerr, eclosed, closes, rtotal>>

\* Stop: e.cancelFunc(), the cancel function NewEngine stored; it cancels the
\* context the workers watch only when e.ctx is still that context
R_StopCancel ==
  /\ rpc = "cancel"
  /\ cancelled' = (cancelled \/ ownCtx)
  /\ rpc' = "wait"
  /\ UNCHANGED <<runFrame, eres, eerr, eclosed, closes, rtotal>>

\* Stop: e.wg.Wait(); e.module.Close(); e.closeChannels()
R_StopClose ==
  /\ rpc = "wait"
  /\ AllWorkersExited(1)
  /\ LET c == CloseChannels(eclosed[1], closes[1]) IN
       /\ eclosed' = [eclosed EXCEPT ![1] = c.closed]
       /\ closes' = [closes EXCEPT ![1] = c.closes]
  /\ rpc' = "done"
  /\ UNCHANGED <<runFrame, cancelled, eres, eerr, rtotal>>

\* for err := range engine.Errors(): one error received
R_ErrRecv ==
  /\ rpc # "none"
  /\ eerr[1] # <<>>
  /\ eerr' = [eerr EXCEPT ![1] = Tail(@)]
  /\ UNCHANGED <<runFrame, cancelled, eres, eclosed, closes, runVars, readVars, callVars>>

NextRun ==
  \/ \E w \in Workers : W_Connect(1, w)
  \/ \E w \in Workers : W_ConnErr(1, w)
  \/ \E w \in Workers : W_Check(1, w)
  \/ \E w \in Workers : W_Next(1, w)
  \/ \E w \in Workers : W_Auth(1, w)
  \/ \E w \in Workers : W_Inc(1, w)
  \/ \E w \in Workers : W_TimeoutRead(1, w)
  \/ \E w \in Workers : W_TimeoutWrite(1, w)
  \/ \E w \in Workers : W_SendErr(1, w)
  \/ \E w \in Workers : W_SendRes(1, w)
  \/ Janitor(1)
  \/ R_Recv \/ R_LoopEnd \/ R_StopCancel \/ R_StopClose \/ R_ErrRecv

SpecRun == InitRun /\ [][NextRun]_vars

\* C14: when no worker is inside the fault handling, the adaptive timeout is
\* the initial timeout plus 500 ms per i/o timeout seen so far, capped at the
\* maximum, and it is never below the initial timeout.
C14_TimeoutFollowsFaults ==
  /\ curTimeout[1] >= InitialTimeoutMs
  /\ curTimeout[1] <= maxTimeout[1]
  /\ (\A w \in Workers : wpc[1][w] \notin {"inc", "toRead", "toWrite"}) =>
       curTimeout[1] = Min(InitialTimeoutMs + ioTimeouts[1] * TimeoutStepMs, MaxTimeoutMs)

(***************************************************************************)
(* Tracker layer: callers of UpdateTargetProgress, the update processor,   *)
(* the auto-save loop, cancellation of the context given to Start, Stop.   *)
(***************************************************************************)
\* the updates the callers may send
Updates ==
  {Update(t, n, n = 2, FALSE, NoPassword, FALSE, 0) : t \in TargetIds, n \in 1..2}

\* NewProgressTracker and Start(ctx), with auto-save enabled or not
InitTracker ==
  /\ QueueIdle /\ EngineIdle /\ MultiIdle /\ DriverIdle /\ RunIdle
  /\ nT = 2 /\ nW = 1 /\ nC = 1
  /\ passwords = <<>>
  /\ accepts = [t \in TargetIds |-> NoPassword]
  /\ initFails = [t \in TargetIds |-> FALSE]
  /\ reachable = [t \in TargetIds |-> TRUE]
  /\ trackerOn = TRUE
  /\ mteMaxConsec = MteMaxConsecErrors
  /\ addr \in {[t \in TargetIds |-> t], [t \in TargetIds |-> 1]}
  /\ ownCtx = FALSE
  /\ cancelled = FALSE
  /\ ReadIdle /\ CallIdle
  /\ updateChan = <<>>
  /\ chanClosed = FALSE
  /\ rs = [t \in TargetIds |-> NoProgress]
  /\ procPc = "run"
  /\ asPc \in {"none", "run"}
  /\ stopPc = "idle"
  /\ saved = <<>>
  /\ dirty = FALSE
  /\ accepted = <<>>
  /\ sendLog = <<>>

trackerFrame == <<cfgVars, queueVars, engineVars, multiVars, driverVars, runVars, readVars, callVars>>

\* one call of UpdateTargetProgress while the tracker is in use
T_Send(u) ==
  /\ stopPc = "idle"
  /\ Len(sendLog) < MaxUpdates
  /\ Tracker_CanSend(updateChan)
  /\ updateChan' = Tracker_Enqueue(updateChan, u)
  /\ accepted' = IF updateChan' # updateChan THEN Append(accepted, u) ELSE accepted
  /\ sendLog' = Append(sendLog, [lenBefore |-> Len(updateChan),
                                 enqueued |-> updateChan' # updateChan])
  /\ UNCHANGED <<trackerFrame, cancelled, chanClosed, rs, procPc, asPc, stopPc, saved,
                 dirty>>

\* updateProcessor: the receive reports the channel closed and drained
TP_ChanClosed ==
  /\ procPc = "run"
  /\ chanClosed
  /\ updateChan = <<>>
  /\ procPc' = "done"
  /\ UNCHANGED <<trackerFrame, cancelled, updateChan, chanClosed, rs, asPc, stopPc,
                 saved, dirty, accepted, sendLog>>

\* SaveNow: the file written holds the state as it is under the lock
SaveNow(state) == state

\* autoSaveLoop: a tick with changesDetected set
T_AutoSave ==
  /\ asPc = "run"
  /\ dirty
  /\ saved' = SaveNow(rs)
  /\ dirty' = FALSE
  /\ UNCHANGED <<trackerFrame, cancelled, updateChan, chanClosed, rs, procPc, asPc,
                 stopPc, accepted, sendLog>>

\* autoSaveLoop: case <-pt.stopChan / case <-ctx.Done(): return
T_AutoSaveExit ==
  /\ asPc = "run"
  /\ chanClosed \/ cancelled
  /\ asPc' = "done"
  /\ UNCHANGED <<trackerFrame, cancelled, updateChan, chanClosed, rs, procPc, stopPc,
                 saved, dirty, accepted, sendLog>>

\* Stop: close(pt.stopChan); close(pt.updateChan)
T_StopClose ==
  /\ stopPc = "idle"
  /\ chanClosed' = TRUE
  /\ stopPc' = "wait"
  /\ UNCHANGED <<trackerFrame, cancelled, updateChan, rs, procPc, asPc, saved, dirty,
                 accepted, sendLog>>

\* Stop: pt.wg.Wait(); pt.SaveNow()
T_StopSave ==
  /\ stopPc = "wait"
  /\ procPc = "done"
  /\ asPc \in {"none", "done"}
  /\ saved' = SaveNow(rs)
  /\ dirty' = FALSE
  /\ stopPc' = "done"
  /\ UNCHANGED <<trackerFrame, cancelled, updateChan, chanClosed, rs, procPc, asPc,
                 accepted, sendLog>>

\* ProgressTracker.GetState: stateCopy := *pt.resumeState with Targets
\* replaced by a fresh slice the elements are copied into; TargetProgress
\* holds no pointers, so the result is a value of its own
ProgressTracker_GetState == [kind |-> "copy", target |-> 0, val |-> rs]

\* ResumeState.GetTargetProgress: return &rs.Targets[i]
ResumeState_GetTargetProgress(t) ==
  [kind |-> "ref", target |-> ResumeState_IndexOf(t), val |-> <<>>]

\* ProgressTracker.GetTargetProgress hands on what the resume state returns
ProgressTracker_GetTargetProgress(t) == ResumeState_GetTargetProgress(t)

\* what a caller reads through a returned value: a pointer shows the live
\* element, a copy shows itself
Seen(h) == IF h.kind = "ref" THEN rs[h.target] ELSE h.val

\* a caller obtains the state; the reader lock is held for the whole call
T_GetState ==
  /\ rdHandle' = ProgressTracker_GetState
  /\ rdSnap' = rs
  /\ UNCHANGED <<cfgVars, cancelled, queueVars, engineVars, multiVars, trackerVars,
                 driverVars, runVars, callVars>>

\* a caller obtains one target's progress; the reader lock is released
\* when the call returns
T_GetTargetProgress(t) ==
  /\ rdHandle' = ProgressTracker_GetTargetProgress(t)
  /\ rdSnap' = rs[ResumeState_IndexOf(t)]
  /\ UNCHANGED <<cfgVars, cancelled, queueVars, engineVars, multiVars, trackerVars,
                 driverVars, runVars, callVars>>

NextTracker ==
  \/ \E u \in Updates : T_Send(u)
  \/ TP_Apply \/ TP_ChanClosed \/ TP_CtxDone
  \/ T_AutoSave \/ T_AutoSaveExit
  \/ T_StopClose \/ T_StopSave
  \/ Cancel

SpecTracker == InitTracker /\ [][NextTracker]_vars

\* the tracker with callers of GetState and GetTargetProgress beside the
\* callers of UpdateTargetProgress and the update processor; auto-save is
\* off and the targets have distinct addresses
SpecReader ==
  /\ InitTracker /\ asPc = "none" /\ addr = [t \in TargetIds |-> t]
  /\ [][\/ \E u \in Updates : T_Send(u)
        \/ TP_Apply
        \/ T_GetState
        \/ \E t \in Targets : T_GetTargetProgress(t)]_vars

RECURSIVE ApplyAll(_, _)
ApplyAll(state, us) ==
  IF us = <<>> THEN state ELSE ApplyAll(ApplyUpdate(state, Head(us)), Tail(us))

\* C23: whatever GetState or GetTargetProgress returned still shows what it
\* showed when it was returned, whatever the update processor has applied
\* since.
C23_ReturnedValueIsolated ==
  rdHandle.kind # "none" => Seen(rdHandle) = rdSnap

\* C8: once Stop has returned, the checkpoint written last is the state with
\* every accepted update applied, in the order they were accepted.
C8_StopSavesAllAccepted ==
  stopPc = "done" => saved = ApplyAll([t \in TargetIds |-> NoProgress], accepted)

\* C9: a call of UpdateTargetProgress on a running tracker can always complete
\* at once; it enqueued its update exactly when the channel was not full, and
\* the channel never holds more than its capacity.
C9_UpdateNeverBlocks ==
  /\ (stopPc = "idle" /\ Len(sendLog) < MaxUpdates) =>
        \A u \in Updates : ENABLED T_Send(u)
  /\ Len(updateChan) <= UpdateChanCap
  /\ \A i \in 1..Len(sendLog) :
       sendLog[i].enqueued <=> sendLog[i].lenBefore < UpdateChanCap

\* The channel is full, the last call dropped its update, and an earlier one
\* was enqueued.
C9_Witness ==
  /\ Len(updateChan) = UpdateChanCap
  /\ Len(sendLog) = MaxUpdates
  /\ ~sendLog[MaxUpdates].enqueued
  /\ sendLog[MaxUpdates].lenBefore = UpdateChanCap
  /\ sendLog[1].enqueued


(***************************************************************************)
(* Driver layer: two engine workers sharing one protocol module.  A worker *)
(* connects at start-up outside any lock, then calls Authenticate for the  *)
(* passwords it takes from the queue.  Statements that touch the module's  *)
(* shared fields (connected, conn, attemptsOnConn) are separate steps.     *)
(* SetDeadline on a fresh socket is taken to succeed.                      *)
(***************************************************************************)
Binary == drv \in {"v6", "v7"}

InitDriver ==
  /\ CfgIdle /\ EngineIdle /\ MultiIdle /\ TrackerIdle /\ RunIdle
  /\ cancelled = FALSE
  /\ ReadIdle /\ CallIdle
  /\ passwords = Wordlist(DriverPasswords)
  /\ pq = [t \in TargetIds |-> NewPasswordQueue(passwords)]
  /\ delivered = [t \in TargetIds |-> <<>>]
  /\ ungets = 0
  /\ drv \in {"v6", "v7", "rest"}
  /\ mu = 0
  /\ connected = FALSE
  /\ conn = 0
  /\ attemptsOnConn = 0
  /\ sentOn = <<>>
  /\ dpc = [w \in WorkerIds |-> "start"]
  /\ dconn = [w \in WorkerIds |-> 0]
  /\ dpw = [w \in WorkerIds |-> NoPassword]
  /\ dfaults \in 0..DriverFaults

driverFrame == <<cfgVars, cancelled, delivered, ungets, engineVars, multiVars,
                 trackerVars, runVars, readVars, callVars, drv>>

\* the limit test, off by one
AtAttemptLimit_OffByOne(n) == n > MaxAttemptsPerConn

\* the connection is given up one attempt early
AtAttemptLimit_Early(n) == n >= MaxAttemptsPerConn - 1

\* m.attemptsOnConn >= 4
AtAttemptLimit(n) == n >= MaxAttemptsPerConn

\* Engine.worker start-up: if !e.module.IsConnected() { e.module.Connect(ctx) }
D_Start(w) ==
  /\ dpc[w] = "start"
  /\ dpc' = [dpc EXCEPT ![w] = IF connected THEN "idle" ELSE "s_check"]
  /\ UNCHANGED <<driverFrame, pq, mu, connected, conn, attemptsOnConn, sentOn, dconn,
                 dpw, dfaults>>

\* Connect: if m.IsConnected() { return nil }
D_ConnectCheck(w) ==
  /\ dpc[w] \in {"s_check", "ac_check"}
  /\ dpc' = [dpc EXCEPT ![w] =
       IF dpc[w] = "s_check"
       THEN (IF connected THEN "idle" ELSE IF Binary THEN "s_dial" ELSE "s_set")
       ELSE (IF connected THEN "a_reset" ELSE "ac_dial")]
  /\ UNCHANGED <<driverFrame, pq, mu, connected, conn, attemptsOnConn, sentOn, dconn,
                 dpw, dfaults>>

\* Connect: dialer.DialContext, from the worker's start-up or from Authenticate
D_Dial(w) ==
  /\ dpc[w] \in {"s_dial", "ac_dial"}
  /\ \/ /\ sentOn' = Append(sentOn, 0)
        /\ dconn' = [dconn EXCEPT ![w] = Len(sentOn) + 1]
        /\ dpc' = [dpc EXCEPT ![w] = IF dpc[w] = "s_dial" THEN "s_assign" ELSE "ac_assign"]
        /\ UNCHANGED dfaults
     \/ /\ dfaults > 0
        /\ dfaults' = dfaults - 1
        /\ dpc' = [dpc EXCEPT ![w] = IF dpc[w] = "s_dial" THEN "exit" ELSE "a_unlock"]
        /\ UNCHANGED <<sentOn, dconn>>
  /\ UNCHANGED <<driverFrame, pq, mu, connected, conn, attemptsOnConn, dpw>>

\* Connect: m.conn = conn
D_Assign(w) ==
  /\ dpc[w] \in {"s_assign", "ac_assign"}
  /\ conn' = dconn[w]
  /\ dpc' = [dpc EXCEPT ![w] = IF dpc[w] = "s_assign" THEN "s_set" ELSE "ac_set"]
  /\ UNCHANGED <<driverFrame, pq, mu, connected, attemptsOnConn, sentOn, dconn, dpw,
                 dfaults>>

\* Connect: m.SetConnected(true); back in Authenticate, m.attemptsOnConn = 0
D_SetConnected(w) ==
  /\ dpc[w] \in {"s_set", "ac_set"}
  /\ connected' = TRUE
  /\ dpc' = [dpc EXCEPT ![w] = IF dpc[w] = "s_set" THEN "idle" ELSE "a_reset"]
  /\ dconn' = [dconn EXCEPT ![w] = 0]
  /\ UNCHANGED <<driverFrame, pq, mu, conn, attemptsOnConn, sentOn, dpw, dfaults>>

\* the worker loop: Next, then the call of Authenticate
D_Next(w) ==
  /\ dpc[w] = "idle"
  /\ LET r == PasswordQueue_Next(pq[1]) IN
       /\ pq' = [pq EXCEPT ![1] = r.q]
       /\ dpw' = [dpw EXCEPT ![w] = r.password]
       /\ dpc' = [dpc EXCEPT ![w] =
            IF r.password = NoPassword THEN "exit"
            ELSE IF Binary THEN "a_lock" ELSE "r_close"]
  /\ UNCHANGED <<driverFrame, mu, connected, conn, attemptsOnConn, sentOn, dconn,
                 dfaults>>

\* binary Authenticate: m.mu.Lock()
D_Lock(w) ==
  /\ dpc[w] = "a_lock"
  /\ mu = 0
  /\ mu' = w
  /\ dpc' = [dpc EXCEPT ![w] = "a_limit"]
  /\ UNCHANGED <<driverFrame, pq, connected, conn, attemptsOnConn, sentOn, dconn, dpw,
                 dfaults>>

\* binary Authenticate: if m.IsConnected() && m.attemptsOnConn >= 4 { m.Close() },
\* then if !m.IsConnected() { m.Connect(ctx) ... }
D_Limit(w) ==
  /\ dpc[w] = "a_limit"
  /\ dpc' = [dpc EXCEPT ![w] =
       IF connected /\ AtAttemptLimit(attemptsOnConn) THEN "a_close"
       ELSE IF ~connected THEN "ac_check" ELSE "a_inc"]
  /\ UNCHANGED <<driverFrame, pq, mu, connected, conn, attemptsOnConn, sentOn, dconn,
                 dpw, dfaults>>

\* Close: if !m.IsConnected() { return nil }, m.conn.Close(), m.SetConnected(false);
\* after an error the caller then sets m.attemptsOnConn = 0 and returns
D_Close(w) ==
  /\ dpc[w] \in {"a_close", "a_errclose"}
  /\ IF connected
     THEN /\ connected' = FALSE
          /\ dpc' = [dpc EXCEPT ![w] = IF dpc[w] = "a_close" THEN "a_close2" ELSE "a_errclose2"]
          /\ UNCHANGED attemptsOnConn
     ELSE /\ dpc' = [dpc EXCEPT ![w] = IF dpc[w] = "a_close" THEN "ac_check" ELSE "a_unlock"]
          /\ attemptsOnConn' = IF dpc[w] = "a_close" THEN attemptsOnConn ELSE 0
          /\ UNCHANGED connected
  /\ UNCHANGED <<driverFrame, pq, mu, conn, sentOn, dconn, dpw, dfaults>>

\* Close: m.conn = nil; m.attemptsOnConn = 0; then the caller's next test of
\* IsConnected (before a reconnect) or its return (after an error)
D_Close2(w) ==
  /\ dpc[w] \in {"a_close2", "a_errclose2"}
  /\ conn' = 0
  /\ attemptsOnConn' = 0
  /\ dpc' = [dpc EXCEPT ![w] =
       IF dpc[w] = "a_errclose2" THEN "a_unlock"
       ELSE IF connected THEN "a_inc" ELSE "ac_check"]
  /\ UNCHANGED <<driverFrame, pq, mu, connected, sentOn, dconn, dpw, dfaults>>

\* binary Authenticate: m.attemptsOnConn = 0 after Connect, then m.attemptsOnConn++
D_Inc(w) ==
  /\ dpc[w] \in {"a_reset", "a_inc"}
  /\ attemptsOnConn' = IF dpc[w] = "a_reset" THEN 1 ELSE attemptsOnConn + 1
  /\ dpc' = [dpc EXCEPT ![w] = "a_send"]
  /\ UNCHANGED <<driverFrame, pq, mu, connected, conn, sentOn, dconn, dpw, dfaults>>

\* sendLogin: one login sentence written on m.conn, and the answer read
D_Send(w) ==
  /\ dpc[w] = "a_send"
  /\ IF conn = 0
     THEN /\ dpc' = [dpc EXCEPT ![w] = "a_errclose"]
          /\ UNCHANGED <<sentOn, dfaults>>
     ELSE /\ sentOn' = [sentOn EXCEPT ![conn] = @ + 1]
          /\ \/ /\ dpc' = [dpc EXCEPT ![w] = "a_unlock"]
                /\ UNCHANGED dfaults
             \/ /\ dfaults > 0
                /\ dfaults' = dfaults - 1
                /\ dpc' = [dpc EXCEPT ![w] = "a_errclose"]
  /\ UNCHANGED <<driverFrame, pq, mu, connected, conn, attemptsOnConn, dconn, dpw>>

\* binary Authenticate returns: the deferred m.mu.Unlock()
D_Unlock(w) ==
  /\ dpc[w] = "a_unlock"
  /\ mu' = IF mu = w THEN 0 ELSE mu
  /\ dpw' = [dpw EXCEPT ![w] = NoPassword]
  /\ dpc' = [dpc EXCEPT ![w] = "idle"]
  /\ UNCHANGED <<driverFrame, pq, connected, conn, attemptsOnConn, sentOn, dconn,
                 dfaults>>

\* REST Authenticate: if m.IsConnected() { m.Close() }
D_RestClose(w) ==
  /\ dpc[w] = "r_close"
  /\ connected' = FALSE
  /\ dpc' = [dpc EXCEPT ![w] = "r_connect"]
  /\ UNCHANGED <<driverFrame, pq, mu, conn, attemptsOnConn, sentOn, dconn, dpw, dfaults>>

\* REST Authenticate: m.Connect(ctx)
D_RestConnect(w) ==
  /\ dpc[w] = "r_connect"
  /\ connected' = TRUE
  /\ dpc' = [dpc EXCEPT ![w] = "r_send"]
  /\ UNCHANGED <<driverFrame, pq, mu, conn, attemptsOnConn, sentOn, dconn, dpw, dfaults>>

\* REST Authenticate: m.httpClient.Do(req), the answer, return
D_RestSend(w) ==
  /\ dpc[w] = "r_send"
  /\ \/ UNCHANGED dfaults
     \/ dfaults > 0 /\ dfaults' = dfaults - 1
  /\ dpw' = [dpw EXCEPT ![w] = NoPassword]
  /\ dpc' = [dpc EXCEPT ![w] = "idle"]
  /\ UNCHANGED <<driverFrame, pq, mu, connected, conn, attemptsOnConn, sentOn, dconn>>

NextDriver ==
  \/ \E w \in WorkerIds : D_Start(w)
  \/ \E w \in WorkerIds : D_ConnectCheck(w)
  \/ \E w \in WorkerIds : D_Dial(w)
  \/ \E w \in WorkerIds : D_Assign(w)
  \/ \E w \in WorkerIds : D_SetConnected(w)
  \/ \E w \in WorkerIds : D_Next(w)
  \/ \E w \in WorkerIds : D_Lock(w)
  \/ \E w \in WorkerIds : D_Limit(w)
  \/ \E w \in WorkerIds : D_Close(w)
  \/ \E w \in WorkerIds : D_Close2(w)
  \/ \E w \in WorkerIds : D_Inc(w)
  \/ \E w \in WorkerIds : D_Send(w)
  \/ \E w \in WorkerIds : D_Unlock(w)
  \/ \E w \in WorkerIds : D_RestClose(w)
  \/ \E w \in WorkerIds : D_RestConnect(w)
  \/ \E w \in WorkerIds : D_RestSend(w)

SpecDriver == InitDriver /\ [][NextDriver]_vars

(***************************************************************************)
(* The connection reuse test: one worker drives the v6 module through a    *)
(* wordlist the device rejects entirely, and nothing fails.                *)
(***************************************************************************)
ReuseTestPasswords == 12

InitReuse ==
  /\ CfgIdle /\ EngineIdle /\ MultiIdle /\ TrackerIdle /\ RunIdle
  /\ cancelled = FALSE
  /\ ReadIdle /\ CallIdle
  /\ passwords \in {Wordlist(n) : n \in 0..ReuseTestPasswords}
  /\ pq = [t \in TargetIds |-> NewPasswordQueue(passwords)]
  /\ delivered = [t \in TargetIds |-> <<>>]
  /\ ungets = 0
  /\ drv = "v6"
  /\ mu = 0
  /\ connected = FALSE
  /\ conn = 0
  /\ attemptsOnConn = 0
  /\ sentOn = <<>>
  /\ dpc = [w \in WorkerIds |-> IF w = 1 THEN "start" ELSE "exit"]
  /\ dconn = [w \in WorkerIds |-> 0]
  /\ dpw = [w \in WorkerIds |-> NoPassword]
  /\ dfaults = 0

NextReuse ==
  \/ D_Start(1) \/ D_ConnectCheck(1) \/ D_Dial(1) \/ D_Assign(1) \/ D_SetConnected(1)
  \/ D_Next(1) \/ D_Lock(1) \/ D_Limit(1) \/ D_Close(1) \/ D_Close2(1)
  \/ D_Inc(1) \/ D_Send(1) \/ D_Unlock(1)

SpecReuse == InitReuse /\ [][NextReuse]_vars

(***************************************************************************)
(* The binary driver's reading of a login reply.  A text is a sequence of  *)
(* fragments; strings.Contains(text, x) is the occurrence of fragment x.   *)
(* A reply is a sequence of words; a word is a reply word such as "!trap"  *)
(* or an attribute word =message=<text>.                                   *)
(***************************************************************************)
MaxMessageLen == 2

NoError == <<"nil">>

\* the replies tried: a reply word alone, or followed by a =message= word
\* whose text is made of up to MaxMessageLen fragments
Replies ==
  LET fragments == {"invalid user name or password", "too many commands before login",
                    "i/o timeout", "text"}
      messages == UNION {[1..n -> fragments] : n \in 1..MaxMessageLen}
      replyWords == {[word |-> r, message |-> <<>>] : r \in {"!trap", "!fatal", "!done", "!re"}}
  IN {<<r>> : r \in replyWords}
       \cup {<<r, [word |-> "=message=", message |-> m]>> : r \in replyWords, m \in messages}

\* parseResponse: an error for "!trap" or "!fatal" ("authentication failed",
\* followed by ": " and the text of the first =message= word when there is
\* one), nil for "!done", else "unexpected response: " and the words
ParseResponse(words) ==
  LET isMessage(i) == words[i].word = "=message="
      firstMessage ==
        IF \E i \in 1..Len(words) : isMessage(i)
        THEN words[CHOOSE i \in 1..Len(words) :
                     isMessage(i) /\ \A j \in 1..(i - 1) : ~isMessage(j)].message
        ELSE <<>>
  IN IF \E i \in 1..Len(words) : words[i].word \in {"!trap", "!fatal"}
     THEN <<"authentication failed">> \o firstMessage
     ELSE IF \E i \in 1..Len(words) : words[i].word = "!done"
     THEN NoError
     ELSE <<"unexpected response">> \o [i \in 1..Len(words) |-> words[i].word]

\* Authenticate from the error sendLogin returned: success, the error handed
\* to the engine, and whether the connection was closed as failed.  The
\* texts of a dead connection are tested first, then those of a reject.
AuthenticateResult(err) ==
  LET contains(x) == \E i \in 1..Len(err) : err[i] = x
      deadConnection == \E x \in {"broken pipe", "connection reset", "EOF", "i/o timeout",
                                  "connection refused"} : contains(x)
      reject == \E x \in {"invalid user name or password", "!trap", "!fatal"} : contains(x)
  IN IF err = NoError
     THEN [returned |-> TRUE, success |-> TRUE, error |-> NoError, closed |-> FALSE]
     ELSE IF deadConnection
     THEN [returned |-> TRUE, success |-> FALSE, error |-> err, closed |-> TRUE]
     ELSE IF reject
     THEN [returned |-> TRUE, success |-> FALSE, error |-> NoError, closed |-> FALSE]
     ELSE [returned |-> TRUE, success |-> FALSE, error |-> err, closed |-> TRUE]

InitParse ==
  /\ CfgIdle /\ QueueIdle /\ EngineIdle /\ MultiIdle /\ TrackerIdle /\ DriverIdle /\ RunIdle
  /\ ReadIdle
  /\ cancelled = FALSE
  /\ passwords = <<>>
  /\ callArg \in Replies
  /\ callRet = NoReturn

\* sendLogin has read the reply: parseResponse, then the rest of Authenticate
P_Authenticate ==
  /\ callRet = NoReturn
  /\ callRet' = AuthenticateResult(ParseResponse(callArg))
  /\ UNCHANGED <<cfgVars, cancelled, queueVars, engineVars, multiVars, trackerVars,
                 driverVars, runVars, readVars, callArg>>

SpecParse == InitParse /\ [][P_Authenticate]_vars

\* C25: Authenticate answers a reply that has "!trap" or "!fatal" with
\* (false, nil) and keeps the connection, whatever the message is.
C25_TrapAndFatalAreRejects ==
  (callRet.returned /\ \E i \in 1..Len(callArg) : callArg[i].word \in {"!trap", "!fatal"}) =>
    /\ ~callRet.success
    /\ callRet.error = NoError
    /\ ~callRet.closed

\* login sentences the n-th connection carries when k sentences went out
\* in groups of MaxAttemptsPerConn
SentencesOn(c, k) ==
  IF c * MaxAttemptsPerConn <= k THEN MaxAttemptsPerConn
  ELSE k - (c - 1) * MaxAttemptsPerConn

\* C24: one worker, every password rejected: a connection is left only
\* after four login sentences, so the sentences go out in groups of four,
\* one TCP connection per group; the 12 sentences of a 12-entry wordlist
\* use exactly 3 connections, carrying attempts 1-4, 5-8 and 9-12.
C24_ThreeConnectionsForTwelve ==
  /\ \A c \in 1..Len(sentOn) : c < Len(sentOn) => sentOn[c] = MaxAttemptsPerConn
  /\ dpc[1] = "exit" =>
       /\ Len(sentOn) = IF passwords = <<>> THEN 1
                        ELSE (Len(passwords) + MaxAttemptsPerConn - 1) \div MaxAttemptsPerConn
       /\ \A c \in 1..Len(sentOn) : sentOn[c] = SentencesOn(c, Len(passwords))
       /\ Len(passwords) = ReuseTestPasswords =>
            sentOn = <<MaxAttemptsPerConn, MaxAttemptsPerConn, MaxAttemptsPerConn>>

\* The 12-entry run is over: three connections, four sentences each.
C24_Witness ==
  /\ Len(passwords) = 12 /\ dpc[1] = "exit"
  /\ sentOn = <<4, 4, 4>>

\* worker w is inside the body of Authenticate
InAuthenticate(w) ==
  dpc[w] \in {"a_limit", "a_close", "a_close2", "ac_check", "ac_dial", "ac_assign", "ac_set",
              "a_reset", "a_inc", "a_send", "a_errclose", "a_errclose2", "a_unlock",
              "r_close", "r_connect", "r_send"}

\* C2: for each of the three drivers, at most one worker is inside
\* Authenticate of the shared module at any time.
C2_AuthenticateSerialized ==
  Cardinality({w \in WorkerIds : InAuthenticate(w)}) <= 1

C26_ProtocolErrorPublishedNotRequeued ==
  [][\A t \in TargetIds : \A w \in WorkerIds :
       /\ (wpc[t][w] = "auth" /\ wout'[t][w] = "proto") =>
            /\ pq'[t] = pq[t]
            /\ consec'[t] = 0
            /\ wpc'[t][w] = "sendRes"
       /\ (wpc[t][w] = "sendRes" /\ wout[t][w] = "proto" /\ wpc'[t][w] # "sendRes") =>
            /\ pq'[t] = pq[t]
            /\ eerr'[t] = eerr[t]
            /\ \/ /\ eres'[t] = Append(eres[t], [password |-> wpw[t][w], success |-> FALSE,
                                                 error |-> TRUE])
                  /\ wpc'[t][w] = "check"
               \/ /\ cancelled
                  /\ eres'[t] = eres[t]
                  /\ wpc'[t][w] = "exit"]_vars

\* a single worker has published the protocol error of one password and is
\* trying a later one
C26_Witness ==
  /\ nW = 1
  /\ ~cancelled
  /\ protoErr[1]
  /\ wpc[1][1] = "auth"
  /\ \E i \in 1..Len(eres[1]) : eres[1][i].error /\ eres[1][i].password < wpw[1][1]


(***************************************************************************)
(* C27: entries of the resume state and the targets of the file            *)
(***************************************************************************)
\* C27: the resume state holds exactly one TargetProgress per (ip, port):
\* no two entries have the same ip and port, whatever the target list, and
\* the updates for an (ip, port) all land in that one entry, so that entries
\* of one (ip, port) never show different progress.
C27_OneEntryPerAddress ==
  \A i \in Targets : \A j \in Targets :
    addr[i] = addr[j] => (i = j /\ rs[i] = rs[j])


(***************************************************************************)
(* C28: Next immediately followed by Unget                                 *)
(***************************************************************************)
\* the cursor after Next and then Unget, called on queue q with no call
\* in between
NextThenUnget(q) == PasswordQueue_Unget(PasswordQueue_Next(q).q).index

\* C28 as stated: from any queue state (cursor at the start, in the middle
\* or at the end of the list) Next immediately followed by Unget leaves
\* the cursor unchanged.
C28_NextUngetLeavesCursor == NextThenUnget(pq[1]) = pq[1].index

\* C28: while the cursor is before the end of the list, Next returns a
\* password and Next immediately followed by Unget leaves the cursor
\* unchanged; at the end of the list Next returns nothing and does not
\* advance, and the Unget after it rewinds the cursor by one, saturating
\* at zero.
C28_NextUngetBeforeEnd ==
  LET q == pq[1] IN
    /\ q.index \in 0..Len(q.passwords)
    /\ q.index < Len(q.passwords) =>
         /\ PasswordQueue_Next(q).password # NoPassword
         /\ NextThenUnget(q) = q.index
    /\ q.index = Len(q.passwords) =>
         /\ PasswordQueue_Next(q).password = NoPassword
         /\ NextThenUnget(q) = IF q.index > 0 THEN q.index - 1 ELSE 0

\* the cursor stands in the middle of the list after calls of Next and Unget
C28_Witness ==
  /\ Len(passwords) = MaxPasswords
  /\ pq[1].index \in 1..(MaxPasswords - 1)
  /\ delivered[1] # <<>>
  /\ ungets > 0


(***************************************************************************)
(* Codec layer: the sentences of the RouterOS binary API as the v6 driver  *)
(* writes and reads them.  A word is a sequence of bytes (0..255), a       *)
(* sentence a sequence of words, and the wire format a sequence of bytes.  *)
(***************************************************************************)
MaxSentenceLen == 2   \* longest sentence tried
MaxWordLen == 255     \* the longest word one length byte can describe

\* encodeSentence written without the length bytes
EncodeSentence_NoLengths(sentence) ==
  LET RECURSIVE Enc(_)
      Enc(s) == IF s = <<>> THEN <<0>> ELSE Head(s) \o Enc(Tail(s))
  IN [error |-> "nil", bytes |-> Enc(sentence)]

\* encodeSentence: "word too long" when a word has more than 255 bytes;
\* otherwise, per word, one length byte and the bytes of the word, and a
\* 0x00 byte at the end
EncodeSentence(sentence) ==
  LET RECURSIVE Enc(_)
      Enc(s) == IF s = <<>> THEN <<0>>
                ELSE <<Len(Head(s))>> \o Head(s) \o Enc(Tail(s))
  IN IF \E k \in 1..Len(sentence) : Len(sentence[k]) > MaxWordLen
     THEN [error |-> "word too long", bytes |-> <<>>]
     ELSE [error |-> "nil", bytes |-> Enc(sentence)]

\* decodeWords: from position i (the next length byte) on; a 0x00 length
\* byte or the end of the data ends the sentence, a length that reaches
\* past the data is an error
DecodeWords(data) ==
  LET RECURSIVE Dec(_, _)
      Dec(i, words) ==
        IF i > Len(data) \/ data[i] = 0
        THEN [error |-> "nil", words |-> words]
        ELSE IF i + data[i] > Len(data)
        THEN [error |-> "invalid word length", words |-> <<>>]
        ELSE Dec(i + data[i] + 1, Append(words, SubSeq(data, i + 1, i + data[i])))
  IN Dec(1, <<>>)

\* common.AppendLengthPrefixed: a word of more than 255 bytes is cut to its
\* first 255 bytes; one length byte, then the bytes
AppendLengthPrefixed(buf, word) ==
  LET wordBytes == IF Len(word) > MaxWordLen THEN SubSeq(word, 1, MaxWordLen) ELSE word
  IN buf \o <<Len(wordBytes)>> \o wordBytes

\* buildLoginCommand: "/login", "=name=" + username, "=password=" + password
BuildLoginCommand(username, password) ==
  LET login == <<47, 108, 111, 103, 105, 110>>
      name == <<61, 110, 97, 109, 101, 61>>
      pass == <<61, 112, 97, 115, 115, 119, 111, 114, 100, 61>>
      b1 == AppendLengthPrefixed(<<>>, login)
      b2 == AppendLengthPrefixed(b1, name \o username)
      b3 == AppendLengthPrefixed(b2, pass \o password)
  IN b3 \o <<0>>

\* the inputs: sentences of up to MaxSentenceLen words, each empty, short,
\* of 255 or of 256 bytes; and logins of user "admin" with a password of
\* 1, 245, 246 or 255 bytes
InitCodec ==
  LET fill(n) == [k \in 1..n |-> 1 + (k % 250)]
      words == {<<>>, <<33>>, <<0>>, <<33, 0>>, fill(MaxWordLen), fill(MaxWordLen + 1)}
      sentences == UNION {[1..n -> words] : n \in 0..MaxSentenceLen}
      admin == <<97, 100, 109, 105, 110>>
  IN /\ CfgIdle /\ QueueIdle /\ EngineIdle /\ MultiIdle /\ TrackerIdle /\ DriverIdle
     /\ RunIdle /\ ReadIdle
     /\ cancelled = FALSE
     /\ passwords = <<>>
     /\ callArg \in {[kind |-> "sentence", words |-> x] : x \in sentences}
                      \cup {[kind |-> "login", username |-> admin, password |-> fill(n)] :
                              n \in {1, 245, 246, MaxWordLen}}
     /\ callRet = NoReturn

codecFrame == <<cfgVars, cancelled, queueVars, engineVars, multiVars, trackerVars, driverVars,
                runVars, readVars, callArg>>

\* m.encodeSentence(sentence)
X_EncodeSentence ==
  /\ callArg.kind = "sentence"
  /\ ~callRet.returned
  /\ LET r == EncodeSentence(callArg.words) IN
       callRet' = [returned |-> TRUE, error |-> r.error, bytes |-> r.bytes,
                   decoded |-> FALSE, words |-> <<>>]
  /\ UNCHANGED codecFrame

\* sendLogin: command := buildLoginCommand(user, password); m.conn.Write(command)
X_BuildLoginCommand ==
  /\ callArg.kind = "login"
  /\ ~callRet.returned
  /\ callRet' = [returned |-> TRUE, error |-> "nil",
                 bytes |-> BuildLoginCommand(callArg.username, callArg.password),
                 decoded |-> FALSE, words |-> <<>>]
  /\ UNCHANGED codecFrame

\* m.decodeWords(data) on the bytes written
X_DecodeWords ==
  /\ callRet.returned
  /\ callRet.error = "nil"
  /\ ~callRet.decoded
  /\ LET r == DecodeWords(callRet.bytes) IN
       callRet' = [callRet EXCEPT !.decoded = TRUE, !.error = r.error, !.words = r.words]
  /\ UNCHANGED codecFrame

NextCodec == X_EncodeSentence \/ X_BuildLoginCommand \/ X_DecodeWords

SpecCodec == InitCodec /\ [][NextCodec]_vars

\* C29 as stated: decode(encode(sentence)) = sentence for every sentence
\* whose every word is at most 255 bytes long.
C29_RoundTripUpTo255 ==
  (callArg.kind = "sentence" /\ callRet.returned
     /\ \A k \in 1..Len(callArg.words) : Len(callArg.words[k]) <= MaxWordLen) =>
    /\ callRet.error = "nil"
    /\ callRet.decoded => callRet.words = callArg.words

\* C29: decode(encode(sentence)) = sentence for every sentence whose every
\* word is between 1 and 255 bytes long; a sentence with a longer word is
\* not encoded at all; an empty word is written as the byte that ends the
\* sentence, so decoding returns only the words before the first empty one.
C29_RoundTripOneTo255 ==
  (callArg.kind = "sentence" /\ callRet.returned) =>
    LET s == callArg.words
        tooLong == \E k \in 1..Len(s) : Len(s[k]) > MaxWordLen
        empties == {k \in 1..Len(s) : s[k] = <<>>}
    IN /\ tooLong <=> callRet.error = "word too long"
       /\ tooLong => callRet.bytes = <<>>
       /\ (callRet.decoded /\ empties = {}) => callRet.words = s
       /\ (callRet.decoded /\ empties # {}) =>
            \E k \in empties : /\ \A j \in 1..(k - 1) : j \notin empties
                               /\ callRet.words = SubSeq(s, 1, k - 1)

\* a sentence of MaxSentenceLen words, one of them of 255 bytes and none
\* empty, has been encoded and decoded
C29_Witness ==
  /\ callArg.kind = "sentence"
  /\ callRet.returned /\ callRet.decoded
  /\ Len(callArg.words) = MaxSentenceLen
  /\ \A k \in 1..Len(callArg.words) : Len(callArg.words[k]) \in 1..MaxWordLen
  /\ \E k \in 1..Len(callArg.words) : Len(callArg.words[k]) = MaxWordLen
  /\ callRet.words = callArg.words

\* C30: a password of exactly 255 bytes is encoded into the login sentence
\* and transmitted intact: the third word of the command written is
\* "=password=" followed by all 255 bytes, with no truncation.
C30_Password255Intact ==
  (callArg.kind = "login" /\ callRet.returned /\ callRet.decoded
     /\ Len(callArg.password) = MaxWordLen) =>
    /\ callRet.error = "nil"
    /\ Len(callRet.words) = 3
    /\ SubSeq(callRet.words[3], 11, Len(callRet.words[3])) = callArg.password


(***************************************************************************)
(* C31: the consecutive-error counter and the outcomes of Authenticate     *)
(***************************************************************************)
\* C31: whenever no worker of a target stands between the return of a
\* faulted Authenticate call and its increment of the counter, the
\* consecutive-error counter of the target equals the number of transient
\* faults observed on the target since its last non-transient outcome.
C31_CounterCountsFaultRun ==
  \A t \in TargetIds :
    (\A w \in WorkerIds : wpc[t][w] # "inc") => consec[t] = faultRun[t]


\* C32: once the parent context is cancelled no worker puts a Result on the
\* result channel or an error on the error channel of its target, the
\* outcome of an attempt that was in progress at the cancellation included.
C32_NoPublishAfterCancel ==
  [][cancelled =>
       /\ published' = published
       /\ \A t \in TargetIds : Len(eerr'[t]) <= Len(eerr[t])]_vars


\* C33: the updates of one target are applied in the order they were sent:
\* in the update channel no update of a target stands behind the target's
\* final update (completed=true) and the passwords_tried values of a
\* target never decrease along the channel; the record of a target never
\* goes back from completed to not completed, its passwords_tried never
\* decreases, and no periodic update of a target is in the channel once
\* its record is completed.
C33_UpdatesAppliedInOrder ==
  /\ [](\A i \in 1..Len(updateChan) : \A j \in 1..Len(updateChan) :
          (i < j /\ updateChan[i].target = updateChan[j].target) =>
            /\ ~updateChan[i].completed
            /\ updateChan[i].tried <= updateChan[j].tried)
  /\ [](\A t \in Targets : \A i \in 1..Len(updateChan) :
          rs[t].completed => updateChan[i].target # t)
  /\ [][\A t \in TargetIds :
          /\ rs[t].completed => rs'[t].completed
          /\ rs[t].tried <= rs'[t].tried]_vars

\* a periodic update and the final update of one target are in the channel
C33_Witness ==
  /\ Len(updateChan) = 2
  /\ updateChan[1].target = 1 /\ ~updateChan[1].completed
  /\ updateChan[2].target = 1 /\ updateChan[2].completed
  /\ ~rs[1].completed


(***************************************************************************)
(* The multi-target engine with the consumer of runMultiTarget: it ranges  *)
(* over GetResults() until that channel is closed and drained, and only    *)
(* then over GetErrors().                                                  *)
(***************************************************************************)
\* a step of the engine; an error is received only after the result loop ended
NextSequential ==
  /\ Next
  /\ gotErrors' # gotErrors => (outerClosed /\ resultsChan = <<>>)

\* two targets, no tracker; every step that stays possible is taken
InitSequential == Init /\ nT = 2 /\ ~trackerOn

SpecSequential ==
  /\ InitSequential
  /\ [][NextSequential]_vars
  /\ WF_vars(NextSequential)

\* C34: with the consumer that reads the outer result channel until it is
\* closed and only then the outer error channel, every per-target task
\* terminates and both outer channels are eventually closed, for any number
\* of targets whose initialization or pre-flight connect fails, including
\* more than C of them.
C34_SequentialConsumerTerminates ==
  <>(outerClosed /\ \A t \in Targets : tpc[t] = "done")


\* C35: the passwords_tried value of every update sent for a target (offset
\* plus results collected) never exceeds the length of the wordlist prefix
\* in which every entry is inside the offset or has a published Result.
C35_TriedWithinAttemptedPrefix ==
  \A i \in 1..Len(updateChan) :
    LET u == updateChan[i]
        t == u.target
    IN \A p \in 1..u.tried :
         /\ p <= Len(passwords)
         /\ p <= startIdx[t] \/ published[t][p] > 0


\* C36: an update that records a target as completed is sent only when the
\* target actually finished: a password was accepted, the host was declared
\* dead, or every entry the engine was loaded with has been attempted; in
\* particular not for a run cut short by cancellation.
C36_CompletedOnlyWhenFinished ==
  \A t \in Targets : \A i \in FinalUpdatesOf(t) :
    \/ updateChan[i].success
    \/ updateChan[i].dead
    \/ \A p \in Range(pq[t].passwords) : published[t][p] > 0


\* C37: once the consecutive-error counter of a target has reached the
\* maximum, no worker makes another Authenticate call for the target and
\* the counter is not reset, so that the final update of the target's task
\* carries dead=true.
C37_DeadIsFinal ==
  /\ [][\A t \in TargetIds : hitMax[t] =>
          /\ authed'[t] = authed[t]
          /\ faultRun'[t] = faultRun[t]
          /\ \A w \in WorkerIds : wout'[t][w] # wout[t][w] => wout'[t][w] = "none"
          /\ consec'[t] >= consec[t]]_vars
  /\ [](\A t \in Targets : \A i \in FinalUpdatesOf(t) : hitMax[t] => updateChan[i].dead)


\* C38: the start-up Connect of a worker never runs while another worker is
\* inside Authenticate on the same module, and the module never has two
\* live connections: no two workers hold a freshly dialled socket at once,
\* and a worker that has dialled a socket finds no other socket in m.conn.
C38_ConnectNotConcurrent ==
  /\ \A w \in WorkerIds : \A v \in WorkerIds \ {w} :
       dpc[w] \in {"s_check", "s_dial", "s_assign", "s_set"} => ~InAuthenticate(v)
  /\ \A w \in WorkerIds : \A v \in WorkerIds \ {w} :
       dconn[w] # 0 => dconn[v] \in {0, dconn[w]}
  /\ \A w \in WorkerIds :
       (dconn[w] # 0 /\ connected) => conn \in {0, dconn[w]}



(***************************************************************************)
(* runMultiTarget with a tracker: tracker.Stop() is deferred, so it runs   *)
(* when the function returns, after both consumer loops have ended.        *)
(***************************************************************************)
\* Stop is called right after Start, while the tasks are running
StopDeferred_AtOnce == TRUE

\* defer tracker.Stop(): the result loop and the error loop have both ended
StopDeferred == outerClosed /\ resultsChan = <<>> /\ errorsChan = <<>>

NextStop ==
  \/ NextSequential
  \/ StopDeferred /\ T_StopClose
  \/ TP_ChanClosed
  \/ T_StopSave

InitStop == Init /\ trackerOn

SpecStop == InitStop /\ [][NextStop]_vars

R_CallStop ==
  /\ rpc = "loop"
  /\ rpc' = "cancel"
  /\ UNCHANGED <<runFrame, cancelled, eres, eerr, eclosed, closes, rtotal>>

NextEngineStop ==
  \/ \E w \in Workers : W_Connect(1, w)
  \/ \E w \in Workers : W_ConnErr(1, w)
  \/ \E w \in Workers : W_Check(1, w)
  \/ \E w \in Workers : W_Next(1, w)
  \/ \E w \in Workers : W_Auth(1, w)
  \/ \E w \in Workers : W_Inc(1, w)
  \/ \E w \in Workers : W_SendErr(1, w)
  \/ \E w \in Workers : W_SendRes(1, w)
  \/ Janitor(1)
  \/ R_Recv \/ R_LoopEnd \/ R_CallStop \/ R_StopCancel \/ R_StopClose \/ R_ErrRecv

\* either way of starting the engine; no i/o timeouts
InitEngineStop == InitEngine(BOOLEAN) /\ timeoutsLeft = 0

SpecEngineStop ==
  /\ InitEngineStop
  /\ [][NextEngineStop]_vars
  /\ \A w \in WorkerIds :
       /\ WF_vars(W_Connect(1, w)) /\ WF_vars(W_ConnErr(1, w)) /\ WF_vars(W_Check(1, w))
       /\ WF_vars(W_Next(1, w)) /\ WF_vars(W_Auth(1, w)) /\ WF_vars(W_Inc(1, w))
       /\ WF_vars(W_SendErr(1, w)) /\ WF_vars(W_SendRes(1, w))
  /\ WF_vars(Janitor(1)) /\ WF_vars(R_StopCancel) /\ WF_vars(R_StopClose)
  /\ WF_vars(R_ErrRecv)

\* C40: after Stop has called the cancel function, no worker passes the
\* check at the top of its loop to take another password, and the call of
\* Stop returns, whichever way the engine was started.
C40_StopStopsWorkers ==
  /\ [][rpc = "wait" =>
         \A w \in WorkerIds : wpc[1][w] = "check" => wpc'[1][w] # "next"]_vars
  /\ (rpc = "wait") ~> (rpc = "done")

====
